---- MODULE Spec2Model ----
(***************************************************************************)
(* A model of the pcx crate: the PCX run-length codec                      *)
(* (low_level/rle.rs), the 128-byte header codec (low_level/header.rs),    *)
(* the row writers (writer.rs) and the row reader (reader.rs).             *)
(*                                                                         *)
(* Byte streams are sequences of integers in 0..255.  An io::Result is a   *)
(* record with a field ok and, on failure, the io::ErrorKind in kind.      *)
(* The sinks are Vec<u8> and the sources are slices or io::Cursor over a   *)
(* slice, as in the crate's tests and fuzz targets: they never fail by     *)
(* themselves, a read past the end returns 0 bytes.                        *)
(***************************************************************************)
EXTENDS Integers, Sequences, FiniteSets, TLC

VARIABLES
    pc,        \* position of the driver (the test or fuzz target that calls the crate)
    data,      \* rle: the bytes given to the Compressor
    mode,      \* rle: "bulk" (one write_all) or "one_by_one" (one write per byte)
    fed,       \* rle: number of bytes of data already written
    comp,      \* rle: the Compressor
    dec,       \* rle: the Decompressor
    result,    \* rle: the bytes the Decompressor returned so far
    hin,       \* header: the arguments of header::write
    file,      \* the bytes of the PCX file (the sink of a writer, the source of a reader)
    wres,      \* header: the io::Result of header::write
    hres,      \* header: the io::Result of Header::load
    img,       \* image: the size, the pixels and the palette given to a writer
    wr,        \* image: the WriterRgb or WriterPaletted
    rd,        \* image: the Reader
    out,       \* image: what the Reader returned so far
    res,       \* image: the io::Result of the last call of a writer or the Reader
    api        \* calls: the last call of a driver that calls in any order, and its counts

rleVars == <<data, mode, fed, comp, dec, result>>
hdrVars == <<hin, file, wres, hres>>
imgVars == <<img, wr, rd, out, res, api>>
vars == <<pc, rleVars, hdrVars, imgVars>>

---------------------------------------------------------------------------
(* Bytes and helpers *)

Min(a, b) == IF a < b THEN a ELSE b

Repeat(v, n) == [i \in 1..n |-> v]

\* byte & 0xC0 : the two top bits of a u8
BitAndC0(byte) == (byte \div 64) * 64

\* byte & 0x3F : the six low bits of a u8
BitAnd3F(byte) == byte % 64

\* 0xC0 | count for a u8 count
BitOrC0(count) == 192 + (count % 64)

---------------------------------------------------------------------------
(* low_level/rle.rs : Compressor *)

Compressor_new(stream, lane_length) ==
    [stream |-> stream, lane_length |-> lane_length, lane_position |-> 0,
     run_count |-> 0, run_value |-> 0]

\* A plausible slip: the literal range written as 0 ..= 0xC0.
flush_compressor_LiteralC0(c) ==
    [c EXCEPT !.stream =
        @ \o (IF c.run_count = 0 THEN <<>>
              ELSE IF c.run_count = 1 /\ c.run_value \in 0..192 THEN <<c.run_value>>
              ELSE <<BitOrC0(c.run_count), c.run_value>>)]

\* A plausible slip: every run of one byte is written as a literal.
flush_compressor_AllLiteral(c) ==
    [c EXCEPT !.stream =
        @ \o (IF c.run_count = 0 THEN <<>>
              ELSE IF c.run_count = 1 THEN <<c.run_value>>
              ELSE <<BitOrC0(c.run_count), c.run_value>>)]

\* fn flush_compressor: emits the pending run; run_count is left as it is.
flush_compressor(c) ==
    [c EXCEPT !.stream =
        @ \o (IF c.run_count = 0 THEN <<>>
              ELSE IF c.run_count = 1 /\ c.run_value \in 0..191 THEN <<c.run_value>>
              ELSE <<BitOrC0(c.run_count), c.run_value>>)]

\* A plausible slip: the run is counted up to 64 bytes.
Compressor_write_byte_Count64(c, byte) ==
    LET lp == c.lane_position + 1
    IN  IF byte = c.run_value /\ c.run_count < 64 /\ lp # c.lane_length
        THEN [c EXCEPT !.lane_position = lp, !.run_count = @ + 1]
        ELSE LET c1 == [c EXCEPT !.lane_position = IF lp = c.lane_length THEN 0 ELSE lp]
                 c2 == flush_compressor(c1)
             IN  [c2 EXCEPT !.run_count = 1, !.run_value = byte]

\* A plausible slip: the run that starts at a byte does not count this byte.
Compressor_write_byte_RunFromZero(c, byte) ==
    LET lp == c.lane_position + 1
    IN  IF byte = c.run_value /\ c.run_count < 62 /\ lp # c.lane_length
        THEN [c EXCEPT !.lane_position = lp, !.run_count = @ + 1]
        ELSE LET c1 == [c EXCEPT !.lane_position = IF lp = c.lane_length THEN 0 ELSE lp]
                 c2 == flush_compressor(c1)
             IN  [c2 EXCEPT !.run_count = 0, !.run_value = byte]

\* One iteration of the loop of Compressor::write, for the byte read from buffer.
Compressor_write_byte(c, byte) ==
    LET lp == c.lane_position + 1
    IN  IF byte = c.run_value /\ c.run_count < 62 /\ lp # c.lane_length
        THEN [c EXCEPT !.lane_position = lp, !.run_count = @ + 1]
        ELSE LET c1 == [c EXCEPT !.lane_position = IF lp = c.lane_length THEN 0 ELSE lp]
                 c2 == flush_compressor(c1)
             IN  [c2 EXCEPT !.run_count = 1, !.run_value = byte]

\* The loop of Compressor::write over buffer[lo..hi], in order.  The range is
\* split in two halves, and the first half is evaluated (the test on
\* run_count, always true) before the second starts, only to keep TLC's
\* evaluation shallow.
RECURSIVE Compressor_write_from(_, _, _, _)
Compressor_write_from(c, buffer, lo, hi) ==
    IF lo > hi THEN c
    ELSE IF lo = hi THEN Compressor_write_byte(c, buffer[lo])
    ELSE LET mid  == (lo + hi) \div 2
             left == Compressor_write_from(c, buffer, lo, mid)
         IN  IF left.run_count >= 0
             THEN Compressor_write_from(left, buffer, mid + 1, hi)
             ELSE left

\* impl io::Write for Compressor, fn write: consumes the whole buffer.
Compressor_write(c, buffer) == Compressor_write_from(c, buffer, 1, Len(buffer))

\* impl io::Write for Compressor, fn flush (stream.flush() of a Vec does nothing).
Compressor_flush(c) == flush_compressor(c)

---------------------------------------------------------------------------
(* low_level/rle.rs : Decompressor.  stream is the whole source and pos    *)
(* the number of its bytes already consumed.                               *)

Decompressor_new(stream) ==
    [stream |-> stream, pos |-> 0, run_count |-> 0, run_value |-> 0]

\* The state of the loop `while buffer.len() > 0` of Decompressor::read: the
\* decompressor d, the length n of the part of the buffer not yet filled, the
\* bytes acc written to the buffer so far, whether the call has returned
\* (done) and, if so, whether with Ok(read) (ok) or with the UnexpectedEof of
\* read_u8 on the value byte of a 2-byte code.
Decompressor_read_start(d, n) ==
    [d |-> d, n |-> n, acc |-> <<>>, done |-> (n = 0), ok |-> TRUE]

\* A plausible slip: a 2-byte code of count 0 is looked at without being
\* consumed.
Decompressor_read_iter_ZeroRunNotConsumed(s) ==
    LET d    == s.d
        k    == Min(d.run_count, s.n)
        d1   == [d EXCEPT !.run_count = @ - k]
        acc1 == s.acc \o Repeat(d.run_value, k)
        n1   == s.n - k
    IN  IF n1 = 0 THEN [d |-> d1, n |-> 0, acc |-> acc1, done |-> TRUE, ok |-> TRUE]
        ELSE IF d1.pos >= Len(d1.stream)
        THEN [d |-> d1, n |-> n1, acc |-> acc1, done |-> TRUE, ok |-> TRUE]
        ELSE
          LET byte == d1.stream[d1.pos + 1]
              d2   == [d1 EXCEPT !.pos = @ + 1]
          IN  IF BitAndC0(byte) # 192
              THEN [d |-> d2, n |-> n1 - 1, acc |-> Append(acc1, byte),
                    done |-> (n1 - 1 = 0), ok |-> TRUE]
              ELSE IF BitAnd3F(byte) = 0
              THEN [d |-> d1, n |-> n1, acc |-> acc1, done |-> FALSE, ok |-> TRUE]
              ELSE
                LET d3 == [d2 EXCEPT !.run_count = BitAnd3F(byte)]
                IN  IF d3.pos >= Len(d3.stream)
                    THEN [d |-> d3, n |-> n1, acc |-> acc1, done |-> TRUE, ok |-> FALSE]
                    ELSE [d |-> [d3 EXCEPT !.run_value = d3.stream[d3.pos + 1],
                                           !.pos = @ + 1],
                          n |-> n1, acc |-> acc1, done |-> FALSE, ok |-> TRUE]

\* One iteration of the loop of Decompressor::read (s.n > 0): drain the
\* pending run; return if the buffer is full; read one byte, return Ok(read)
\* at the end of the stream; a byte below 0xC0 goes to the buffer, another
\* one sets run_count and then run_value from the next byte.
Decompressor_read_iter(s) ==
    LET d    == s.d
        k    == Min(d.run_count, s.n)
        d1   == [d EXCEPT !.run_count = @ - k]
        acc1 == s.acc \o Repeat(d.run_value, k)
        n1   == s.n - k
    IN  IF n1 = 0 THEN [d |-> d1, n |-> 0, acc |-> acc1, done |-> TRUE, ok |-> TRUE]
        ELSE IF d1.pos >= Len(d1.stream)
        THEN [d |-> d1, n |-> n1, acc |-> acc1, done |-> TRUE, ok |-> TRUE]
        ELSE
          LET byte == d1.stream[d1.pos + 1]
              d2   == [d1 EXCEPT !.pos = @ + 1]
          IN  IF BitAndC0(byte) # 192
              THEN [d |-> d2, n |-> n1 - 1, acc |-> Append(acc1, byte),
                    done |-> (n1 - 1 = 0), ok |-> TRUE]
              ELSE
                LET d3 == [d2 EXCEPT !.run_count = BitAnd3F(byte)]
                IN  IF d3.pos >= Len(d3.stream)
                    THEN [d |-> d3, n |-> n1, acc |-> acc1, done |-> TRUE, ok |-> FALSE]
                    ELSE [d |-> [d3 EXCEPT !.run_value = d3.stream[d3.pos + 1],
                                           !.pos = @ + 1],
                          n |-> n1, acc |-> acc1, done |-> FALSE, ok |-> TRUE]

\* At most `fuel` iterations of the loop, in order (the iterations are split
\* in two halves, the first evaluated before the second starts, to keep
\* TLC's evaluation shallow).
RECURSIVE Decompressor_read_span(_, _)
Decompressor_read_span(s, fuel) ==
    IF s.done \/ fuel = 0 THEN s
    ELSE IF fuel = 1 THEN Decompressor_read_iter(s)
    ELSE LET half == Decompressor_read_span(s, fuel \div 2)
         IN  IF half.done THEN half
             ELSE Decompressor_read_span(half, fuel - (fuel \div 2))

\* The iterations the loop of a read call can need: each one fills a byte
\* of the buffer or consumes a byte of the stream.
Decompressor_read_fuel(d, n) == n + (Len(d.stream) - d.pos) + 1

\* A plausible slip: the end of the stream after the first byte of a 2-byte
\* code is reported as Ok(read).
Decompressor_read_result_EofOk(s) ==
    [d |-> s.d, data |-> s.acc, ok |-> TRUE, done |-> s.done]

\* A plausible slip: the pending run is dropped when the call returns.
Decompressor_read_result_RunDropped(s) ==
    [d |-> [s.d EXCEPT !.run_count = 0], data |-> s.acc, ok |-> s.ok, done |-> s.done]

\* The result of a read call whose loop ended in s: the decompressor
\* afterwards, the bytes written to the buffer, ok = FALSE for an Err, and
\* done = FALSE if the loop is still running after Decompressor_read_fuel
\* iterations.
Decompressor_read_result(s) == [d |-> s.d, data |-> s.acc, ok |-> s.ok, done |-> s.done]

\* impl io::Read for Decompressor, fn read, with n = buffer.len()
Decompressor_read(d, n) ==
    Decompressor_read_result(
      Decompressor_read_span(Decompressor_read_start(d, n), Decompressor_read_fuel(d, n)))

---------------------------------------------------------------------------
(* io::Error kinds and integer arithmetic of fixed width *)

InvalidData == "InvalidData"
InvalidInput == "InvalidInput"
UnexpectedEof == "UnexpectedEof"
\* Not an io::ErrorKind: the call did not return, it panicked (an arithmetic
\* overflow in a build with overflow checks, a failed assert, an index out
\* of bounds).
Panic == "panic"

U16_MAX == 65535

\* a - b and a + b on u16: the wrapped value, and whether the exact result
\* does not fit (a panic in a build with overflow checks).
Sub16(a, b) == [v |-> (a - b) % 65536, overflow |-> a < b]
Add16(a, b) == [v |-> (a + b) % 65536, overflow |-> a + b > U16_MAX]

\* write_u16::<LittleEndian> and read_u16::<LittleEndian> (s[i], s[i + 1])
LE16(v) == <<v % 256, v \div 256>>
ReadU16(s, i) == s[i] + 256 * s[i + 1]

---------------------------------------------------------------------------
(* low_level/mod.rs, low_level/header.rs *)

MAGIC_BYTE == 10
PALETTE_START == 12
HEADER_LENGTH == 128

\* Version::V0 .. Version::V5 as their u8 values
Versions == {0, 2, 3, 4, 5}

NoHeader ==
    [version |-> 0, is_compressed |-> FALSE, bit_depth |-> 0, size |-> <<0, 0>>,
     start |-> <<0, 0>>, dpi |-> <<0, 0>>, palette |-> <<>>,
     number_of_color_planes |-> 0, lane_length |-> 0]

\* fn error (header.rs) and the `?` on a read that hits the end of the stream
LoadError(kind, msg) ==
    [ok |-> FALSE, kind |-> kind, msg |-> msg, header |-> NoHeader]

\* A plausible slip: the length rounded down instead of up.
lane_proper_length_RoundDown(width, bit_depth) ==
    ((width * bit_depth) \div 8) % 65536

\* fn lane_proper_length(width, bit_depth), computed in u32 and cast to u16
lane_proper_length(width, bit_depth) ==
    (((width * bit_depth - 1) \div 8) + 1) % 65536

\* whether the u32 subtraction in lane_proper_length underflows
lane_proper_length_overflows(width, bit_depth) == width * bit_depth < 1

\* A plausible slip: the test of y_end < y_start left out.
dimensions_check_NoYOrder(x_start, y_start, x_end, y_end) ==
    IF x_end < x_start THEN [invalid |-> TRUE, overflow |-> FALSE]
    ELSE IF Sub16(x_end, x_start).v = U16_MAX
         THEN [invalid |-> TRUE, overflow |-> Sub16(x_end, x_start).overflow]
    ELSE IF Sub16(y_end, y_start).v = U16_MAX
         THEN [invalid |-> TRUE, overflow |-> Sub16(y_end, y_start).overflow]
    ELSE [invalid |-> FALSE, overflow |-> Sub16(y_end, y_start).overflow]

\* The condition of Header::load on the dimensions,
\*   x_end < x_start || y_end < y_start
\*     || x_end - x_start == u16::MAX || y_end - y_start == u16::MAX,
\* evaluated from left to right up to the first operand that is true;
\* overflow tells whether a subtraction that was evaluated underflowed.
dimensions_check(x_start, y_start, x_end, y_end) ==
    IF x_end < x_start THEN [invalid |-> TRUE, overflow |-> FALSE]
    ELSE IF y_end < y_start THEN [invalid |-> TRUE, overflow |-> FALSE]
    ELSE IF Sub16(x_end, x_start).v = U16_MAX
         THEN [invalid |-> TRUE, overflow |-> Sub16(x_end, x_start).overflow]
    ELSE IF Sub16(y_end, y_start).v = U16_MAX
         THEN [invalid |-> TRUE,
               overflow |-> Sub16(x_end, x_start).overflow \/ Sub16(y_end, y_start).overflow]
    ELSE [invalid |-> FALSE,
          overflow |-> Sub16(x_end, x_start).overflow \/ Sub16(y_end, y_start).overflow]

\* The (number_of_color_planes, bit_depth) pairs Header::load accepts.
SupportedFormats ==
    {<<3, 8>>, <<1, 1>>, <<1, 2>>, <<1, 4>>, <<1, 8>>, <<2, 1>>, <<3, 1>>, <<4, 1>>}

\* The part of Header::load after the dimensions were accepted.
Header_load_rest(stream, width, height) ==
    IF Len(stream) < HEADER_LENGTH THEN LoadError(UnexpectedEof, "failed to fill whole buffer")
    ELSE
      LET bit_depth              == stream[4]
          number_of_color_planes == stream[66]
          lane_length            == ReadU16(stream, 67)
      IN  IF <<number_of_color_planes, bit_depth>> \notin SupportedFormats
          THEN LoadError(InvalidData, "PCX: invalid or unsupported color format")
          ELSE IF lane_proper_length_overflows(width, bit_depth)
          THEN LoadError(Panic, "attempt to subtract with overflow")
          ELSE IF lane_length < lane_proper_length(width, bit_depth)
          THEN LoadError(InvalidData, "PCX: invalid lane length")
          ELSE [ok |-> TRUE, kind |-> "", msg |-> "",
                header |->
                  [version |-> stream[2],
                   is_compressed |-> (stream[3] = 1),
                   bit_depth |-> bit_depth,
                   size |-> <<width, height>>,
                   start |-> <<ReadU16(stream, 5), ReadU16(stream, 7)>>,
                   dpi |-> <<ReadU16(stream, 13), ReadU16(stream, 15)>>,
                   palette |-> SubSeq(stream, 17, 64),
                   number_of_color_planes |-> number_of_color_planes,
                   lane_length |-> lane_length]]

\* Header::load(stream): the fields are read in the order of the file, and a
\* read past the end of the stream fails with UnexpectedEof.
Header_load(stream) ==
    IF Len(stream) < 1 THEN LoadError(UnexpectedEof, "failed to fill whole buffer")
    ELSE IF stream[1] # MAGIC_BYTE THEN LoadError(InvalidData, "not a PCX file")
    ELSE IF Len(stream) < 2 THEN LoadError(UnexpectedEof, "failed to fill whole buffer")
    ELSE IF stream[2] \notin Versions THEN LoadError(InvalidData, "PCX: unknown version")
    ELSE IF Len(stream) < 3 THEN LoadError(UnexpectedEof, "failed to fill whole buffer")
    ELSE IF stream[3] # 0 /\ stream[3] # 1 THEN LoadError(InvalidData, "PCX: unknown encoding")
    ELSE IF Len(stream) < 12 THEN LoadError(UnexpectedEof, "failed to fill whole buffer")
    ELSE
      LET x_start == ReadU16(stream, 5)
          y_start == ReadU16(stream, 7)
          x_end   == ReadU16(stream, 9)
          y_end   == ReadU16(stream, 11)
          check   == dimensions_check(x_start, y_start, x_end, y_end)
          width   == Add16(Sub16(x_end, x_start).v, 1)
          height  == Add16(Sub16(y_end, y_start).v, 1)
      IN  IF check.overflow THEN LoadError(Panic, "attempt to subtract with overflow")
          ELSE IF check.invalid THEN LoadError(InvalidData, "PCX: invalid dimensions")
          ELSE IF Sub16(x_end, x_start).overflow \/ Sub16(y_end, y_start).overflow
          THEN LoadError(Panic, "attempt to subtract with overflow")
          ELSE IF width.overflow \/ height.overflow
          THEN LoadError(Panic, "attempt to add with overflow")
          ELSE Header_load_rest(stream, width.v, height.v)

\* Header::lane_proper_length, Header::lane_padding
Header_lane_proper_length(h) == lane_proper_length(h.size[1], h.bit_depth)
Header_lane_padding(h) == Sub16(h.lane_length, Header_lane_proper_length(h))

RECURSIVE Pow2(_)
Pow2(n) == IF n = 0 THEN 1 ELSE 2 * Pow2(n - 1)

\* A plausible slip: the exponent as a sum instead of a product.
Header_palette_length_Sum(h) ==
    IF h.number_of_color_planes = 3 /\ h.bit_depth = 8 THEN <<>>
    ELSE <<Pow2(h.bit_depth + h.number_of_color_planes) % 65536>>

\* Header::palette_length: None is <<>>, Some(n) is <<n>>.  The shift is a
\* u16 shift: the bits shifted out are lost.
Header_palette_length(h) ==
    IF h.number_of_color_planes = 3 /\ h.bit_depth = 8 THEN <<>>
    ELSE <<Pow2(h.bit_depth * h.number_of_color_planes) % 65536>>

\* Reader::is_paletted (reader.rs): palette_length().is_some()
is_paletted(h) == Header_palette_length(h) # <<>>

\* A plausible slip: x_end and y_end written as the width and the height.
header_write_fields_NoMinusOne(paletted, size, dpi) ==
    <<MAGIC_BYTE, 5, 1, 8>> \o LE16(0) \o LE16(0)
      \o LE16(size[1]) \o LE16(size[2])
      \o LE16(dpi[1]) \o LE16(dpi[2]) \o Repeat(0, 48)
      \o <<0, IF paletted THEN 1 ELSE 3>>
      \o LE16(Add16(size[1], size[1] % 2).v) \o LE16(1) \o Repeat(0, 58)

\* The bytes header::write writes once the size was accepted ("Write
\* header." to the end of the function).  size.0 & 1 is size.0 % 2.
header_write_fields(paletted, size, dpi) ==
    <<MAGIC_BYTE, 5, 1, 8>> \o LE16(0) \o LE16(0)
      \o LE16(Sub16(size[1], 1).v) \o LE16(Sub16(size[2], 1).v)
      \o LE16(dpi[1]) \o LE16(dpi[2]) \o Repeat(0, 48)
      \o <<0, IF paletted THEN 1 ELSE 3>>
      \o LE16(Add16(size[1], size[1] % 2).v) \o LE16(1) \o Repeat(0, 58)

\* A plausible slip: the checks of the size made after the first bytes
\* were written.
header_write_LateCheck(stream, paletted, size, dpi) ==
    IF size[1] = 65535 \/ size[1] = 0 \/ size[2] = 0
    THEN [ok |-> FALSE, kind |-> InvalidInput, stream |-> stream \o <<MAGIC_BYTE, 5>>]
    ELSE [ok |-> TRUE, kind |-> "",
          stream |-> stream \o header_write_fields(paletted, size, dpi)]

\* header::write(stream, paletted, size, dpi): the io::Result and the stream
\* afterwards.
header_write(stream, paletted, size, dpi) ==
    IF size[1] = 65535
    THEN [ok |-> FALSE, kind |-> InvalidInput, stream |-> stream]
    ELSE IF size[1] = 0 \/ size[2] = 0
    THEN [ok |-> FALSE, kind |-> InvalidInput, stream |-> stream]
    ELSE [ok |-> TRUE, kind |-> "",
          stream |-> stream \o header_write_fields(paletted, size, dpi)]

\* The values of the variables before header::write and Header::load were called.
NoWrite == [paletted |-> FALSE, size |-> <<0, 0>>, dpi |-> <<0, 0>>]
NoWriteResult == [ok |-> FALSE, kind |-> "none", stream |-> <<>>]
NoLoadResult == LoadError("none", "")

---------------------------------------------------------------------------
(* low_level/rle.rs : Compressor::pad, Compressor::finish *)

\* A plausible slip: no padding is written.
Compressor_pad_NoWrite(c) == c

\* At most `fuel` turns of the loop `while self.lane_position != 0` of pad,
\* each a write(&[0]) (the turns are split in two halves, the first
\* evaluated before the second starts, to keep TLC's evaluation shallow).
RECURSIVE Compressor_pad_span(_, _)
Compressor_pad_span(c, fuel) ==
    IF c.lane_position = 0 \/ fuel = 0 THEN c
    ELSE IF fuel = 1 THEN Compressor_write(c, <<0>>)
    ELSE LET half == Compressor_pad_span(c, fuel \div 2)
         IN  IF half.lane_position = 0 THEN half
             ELSE Compressor_pad_span(half, fuel - (fuel \div 2))

\* fn pad: zeros are written up to the end of the lane, which takes less
\* than lane_length turns of the loop.
Compressor_pad(c) == Compressor_pad_span(c, c.lane_length)

\* fn finish: flush, and the stream is given back.
Compressor_finish(c) == Compressor_flush(c).stream

---------------------------------------------------------------------------
(* writer.rs.  A writer is the record of its fields; the result of a call  *)
(* is the writer afterwards (w), and the io::Result (ok, kind).            *)

Hang == "hang"

WriterOk(w) == [w |-> w, ok |-> TRUE, kind |-> ""]
WriterErr(w, kind) == [w |-> w, ok |-> FALSE, kind |-> kind]

NoWriter == [compressor |-> Compressor_new(<<>>, 1), num_rows_left |-> 0, width |-> 0]

\* WriterRgb::new and WriterPaletted::new (paletted tells which): the header,
\* then a compressor of lane length the width rounded up to even.  On an
\* error w.compressor.stream is what was written to the stream.
Writer_new_header(image_size, h) ==
    IF ~h.ok
    THEN WriterErr([NoWriter EXCEPT !.compressor.stream = h.stream], h.kind)
    ELSE IF Add16(image_size[1], image_size[1] % 2).overflow
    THEN WriterErr([NoWriter EXCEPT !.compressor.stream = h.stream], Panic)
    ELSE WriterOk([compressor |->
                     Compressor_new(h.stream, Add16(image_size[1], image_size[1] % 2).v),
                   num_rows_left |-> image_size[2],
                   width |-> image_size[1]])

Writer_new(stream, paletted, image_size, dpi) ==
    Writer_new_header(image_size, header_write(stream, paletted, image_size, dpi))

WriterRgb_new(stream, image_size, dpi) == Writer_new(stream, FALSE, image_size, dpi)
WriterPaletted_new(stream, image_size, dpi) == Writer_new(stream, TRUE, image_size, dpi)

\* A plausible slip: the lane is padded before its bytes are written.
write_lane_PadFirst(c, lane) == Compressor_write(Compressor_pad(c), lane)

\* compressor.write(lane)?; compressor.pad()?;
write_lane(c, lane) == Compressor_pad(Compressor_write(c, lane))

\* A plausible slip: the lanes of a row are padded once, after the last one.
WriterRgb_write_row_from_separate_PadOnce(w, r, g, b) ==
    IF w.num_rows_left = 0 THEN WriterErr(w, InvalidInput)
    ELSE IF Len(r) # w.width \/ Len(g) # w.width \/ Len(b) # w.width
    THEN WriterErr(w, InvalidInput)
    ELSE WriterOk([w EXCEPT
                     !.compressor =
                        Compressor_pad(
                          Compressor_write(Compressor_write(Compressor_write(@, r), g), b)),
                     !.num_rows_left = @ - 1])

\* WriterRgb::write_row_from_separate
WriterRgb_write_row_from_separate(w, r, g, b) ==
    IF w.num_rows_left = 0 THEN WriterErr(w, InvalidInput)
    ELSE IF Len(r) # w.width \/ Len(g) # w.width \/ Len(b) # w.width
    THEN WriterErr(w, InvalidInput)
    ELSE WriterOk([w EXCEPT
                     !.compressor = write_lane(write_lane(write_lane(@, r), g), b),
                     !.num_rows_left = @ - 1])

\* rgb[x * 3 + color] for x in 0..width
Channel(rgb, color, width) == [x \in 1..width |-> rgb[(x - 1) * 3 + color + 1]]

\* compressor.write_u8(n): write_all of the 1-byte buffer [n]
Compressor_write_u8(c, n) == Compressor_write(c, <<n>>)

\* The loop `for x in 0..width` of write_row_from_interleaved for one color,
\* from x = lo to x = hi: write_u8(rgb[x * 3 + color])
RECURSIVE write_color_from(_, _, _, _, _)
write_color_from(c, rgb, color, lo, hi) ==
    IF lo > hi THEN c
    ELSE IF lo = hi THEN Compressor_write_u8(c, rgb[lo * 3 + color + 1])
    ELSE LET mid  == (lo + hi) \div 2
             left == write_color_from(c, rgb, color, lo, mid)
         IN  IF left.run_count >= 0
             THEN write_color_from(left, rgb, color, mid + 1, hi)
             ELSE left

\* The body of the loop `for color in 0..3`: the bytes of one color, then pad
write_color(c, rgb, color, width) ==
    Compressor_pad(write_color_from(c, rgb, color, 0, width - 1))

\* WriterRgb::write_row_from_interleaved: for each color, one write_u8 per
\* pixel (a write of a 1-byte buffer), then pad.
WriterRgb_write_row_from_interleaved(w, rgb) ==
    IF w.num_rows_left = 0 THEN WriterErr(w, InvalidInput)
    ELSE IF Len(rgb) # w.width * 3 THEN WriterErr(w, InvalidInput)
    ELSE WriterOk([w EXCEPT
                     !.compressor =
                        write_color(write_color(write_color(@, rgb, 0, w.width),
                                                rgb, 1, w.width),
                                    rgb, 2, w.width),
                     !.num_rows_left = @ - 1])

\* impl Drop for WriterRgb
WriterRgb_drop(w) == [w EXCEPT !.compressor = Compressor_flush(@)]

\* A WriterPaletted goes out of scope: it has no impl Drop, and Compressor
\* has none either (rle.rs 68-70), so its fields are dropped and nothing is
\* written to the stream.
WriterPaletted_drop(w) == w

\* A plausible slip: finish without the test of the rows left.
WriterRgb_finish_NoRowsTest(w) ==
    WriterOk(WriterRgb_drop([w EXCEPT !.compressor = Compressor_flush(@)]))

\* WriterRgb::finish(self); self is dropped when the call returns.
WriterRgb_finish(w) ==
    IF w.num_rows_left # 0 THEN WriterErr(WriterRgb_drop(w), InvalidInput)
    ELSE WriterOk(WriterRgb_drop([w EXCEPT !.compressor = Compressor_flush(@)]))

\* A plausible slip: write_row without the test of the rows left.
WriterPaletted_write_row_NoRowsTest(w, row) ==
    IF Len(row) # w.width THEN WriterErr(w, InvalidInput)
    ELSE WriterOk([w EXCEPT !.compressor = write_lane(@, row),
                            !.num_rows_left = @ - 1])

\* A plausible slip: the row is counted before its length is tested.
WriterPaletted_write_row_CountsRejected(w, row) ==
    IF w.num_rows_left = 0 THEN WriterErr(w, InvalidInput)
    ELSE IF Len(row) # w.width
    THEN WriterErr([w EXCEPT !.num_rows_left = @ - 1], InvalidInput)
    ELSE WriterOk([w EXCEPT !.compressor = write_lane(@, row),
                            !.num_rows_left = @ - 1])

\* WriterPaletted::write_row
WriterPaletted_write_row(w, row) ==
    IF w.num_rows_left = 0 THEN WriterErr(w, InvalidInput)
    ELSE IF Len(row) # w.width THEN WriterErr(w, InvalidInput)
    ELSE WriterOk([w EXCEPT !.compressor = write_lane(@, row),
                            !.num_rows_left = @ - 1])

PALETTE_LENGTH == 768

\* A plausible slip: the palette is not filled up to 256 colors.
WriterPaletted_write_palette_NoFill(w, palette) ==
    IF w.num_rows_left # 0 THEN WriterErr(w, InvalidInput)
    ELSE IF Len(palette) > PALETTE_LENGTH \/ Len(palette) % 3 # 0
    THEN WriterErr(w, InvalidInput)
    ELSE WriterOk([w EXCEPT !.compressor.stream =
                     Compressor_finish(w.compressor) \o <<PALETTE_START>> \o palette])

\* WriterPaletted::write_palette(self, palette)
WriterPaletted_write_palette(w, palette) ==
    IF w.num_rows_left # 0 THEN WriterErr(w, InvalidInput)
    ELSE IF Len(palette) > PALETTE_LENGTH \/ Len(palette) % 3 # 0
    THEN WriterErr(w, InvalidInput)
    ELSE WriterOk([w EXCEPT !.compressor.stream =
                     Compressor_finish(w.compressor) \o <<PALETTE_START>> \o palette
                       \o Repeat(0, PALETTE_LENGTH - Len(palette))])

---------------------------------------------------------------------------
(* reader.rs : PixelReader.  The source is an io::Cursor over the bytes of *)
(* the file; the pixel reader is the record [compressed, d], d.stream the  *)
(* bytes of the file and d.pos the position of the cursor (the run of d is *)
(* used by PixelReader::Compressed only).  The result of a read is the     *)
(* pixel reader afterwards (pr), the bytes put at the start of the buffer  *)
(* (data) and the io::Result (ok, kind); kind is Hang if the call did not  *)
(* return.                                                                 *)
(*                                                                         *)
(* Where the code binds the result of a call and goes on with it, the      *)
(* model has one operator for the call and one, which takes the result as  *)
(* a parameter, for what follows.                                          *)

ReadOk(pr, bytes) == [pr |-> pr, data |-> bytes, ok |-> TRUE, kind |-> ""]
ReadErr(pr, bytes, kind) == [pr |-> pr, data |-> bytes, ok |-> FALSE, kind |-> kind]

\* The result r with bytes put before its data
Prepend(bytes, r) == [r EXCEPT !.data = bytes \o @]

\* PixelReader::Compressed: the result r of decompressor.read(buffer)
PixelReader_read_compressed(pr, r) ==
    IF ~r.done THEN ReadErr([pr EXCEPT !.d = r.d], r.data, Hang)
    ELSE IF ~r.ok THEN ReadErr([pr EXCEPT !.d = r.d], r.data, UnexpectedEof)
    ELSE ReadOk([pr EXCEPT !.d = r.d], r.data)

\* impl io::Read for PixelReader, fn read, with n = buffer.len().  The read
\* of a Cursor copies what is left of the slice, up to n bytes.
PixelReader_read(pr, n) ==
    IF pr.compressed
    THEN PixelReader_read_compressed(pr, Decompressor_read(pr.d, n))
    ELSE LET from == Min(pr.d.pos, Len(pr.d.stream))
             k    == Min(n, Len(pr.d.stream) - from)
         IN  ReadOk([pr EXCEPT !.d.pos = @ + k], SubSeq(pr.d.stream, from + 1, from + k))

\* read_exact of io::Read, which PixelReader does not override: read is
\* called until the buffer is full; a read of 0 bytes is UnexpectedEof.
\* PixelReader_read_exact_next is the loop after the read that returned r.
RECURSIVE PixelReader_read_exact(_, _), PixelReader_read_exact_next(_, _)
PixelReader_read_exact(pr, n) ==
    IF n = 0 THEN ReadOk(pr, <<>>)
    ELSE PixelReader_read_exact_next(n, PixelReader_read(pr, n))

PixelReader_read_exact_next(n, r) ==
    IF ~r.ok THEN r
    ELSE IF r.data = <<>> THEN ReadErr(r.pr, <<>>, UnexpectedEof)
    ELSE Prepend(r.data, PixelReader_read_exact(r.pr, n - Len(r.data)))

\* k calls of read_u8 (read_exact of a 1-byte buffer), up to the first that
\* fails; data is the bytes read.  The calls are split in two halves, the
\* second (PixelReader_read_u8s_rest) evaluated after the first returned
\* left, to keep TLC's evaluation shallow.
RECURSIVE PixelReader_read_u8s(_, _), PixelReader_read_u8s_rest(_, _)
PixelReader_read_u8s(pr, k) ==
    IF k = 0 THEN ReadOk(pr, <<>>)
    ELSE IF k = 1 THEN PixelReader_read_exact(pr, 1)
    ELSE PixelReader_read_u8s_rest(k - (k \div 2), PixelReader_read_u8s(pr, k \div 2))

PixelReader_read_u8s_rest(k, left) ==
    IF ~left.ok THEN left
    ELSE Prepend(left.data, PixelReader_read_u8s(left.pr, k))

---------------------------------------------------------------------------
(* reader.rs : Reader.  The result of a call is the reader afterwards      *)
(* (rd), the buffer afterwards (buffer) and the io::Result (ok, kind).     *)

NoReader ==
    [header |-> NoHeader,
     pixel_reader |-> [compressed |-> FALSE, d |-> Decompressor_new(<<>>)],
     num_lanes_read |-> 0]

RowOk(r, buffer) == [rd |-> r, buffer |-> buffer, ok |-> TRUE, kind |-> ""]
RowErr(r, buffer, kind) == [rd |-> r, buffer |-> buffer, ok |-> FALSE, kind |-> kind]

\* The result s of a call that has no buffer, with the buffer
WithBuffer(s, buffer) == [rd |-> s.rd, buffer |-> buffer, ok |-> s.ok, kind |-> s.kind]

\* The buffer after bytes were put at its start.
Filled(buffer, bytes) ==
    [i \in 1..Len(buffer) |-> IF i <= Len(bytes) THEN bytes[i] ELSE buffer[i]]

\* buffer[from..from + Len(slice)] = slice (from counted from 0)
PutSlice(buffer, from, slice) ==
    [i \in 1..Len(buffer) |->
        IF i > from /\ i <= from + Len(slice) THEN slice[i - from] ELSE buffer[i]]

\* Reader::new after Header::load returned h: the pixel reader takes the
\* cursor, which stands after the header.
Reader_new_loaded(stream, h) ==
    IF ~h.ok THEN [ok |-> FALSE, kind |-> h.kind, rd |-> NoReader]
    ELSE [ok |-> TRUE, kind |-> "",
          rd |-> [header |-> h.header,
                  pixel_reader |->
                    [compressed |-> h.header.is_compressed,
                     d |-> [Decompressor_new(stream) EXCEPT !.pos = HEADER_LENGTH]],
                  num_lanes_read |-> 0]]

\* Reader::new / Reader::from_mem
Reader_new(stream) == Reader_new_loaded(stream, Header_load(stream))

Reader_width(r) == r.header.size[1]
Reader_height(r) == r.header.size[2]
Reader_dimensions(r) == r.header.size
Reader_is_paletted(r) == is_paletted(r.header)
Reader_palette_length(r) == Header_palette_length(r.header)

\* skip_padding after its calls of read_u8 returned s: the lane is counted
\* if none failed.
skip_padding_read(r, s) ==
    IF ~s.ok
    THEN [rd |-> [r EXCEPT !.pixel_reader = s.pr], ok |-> FALSE, kind |-> s.kind]
    ELSE [rd |-> [r EXCEPT !.pixel_reader = s.pr, !.num_lanes_read = @ + 1],
          ok |-> TRUE, kind |-> ""]

\* A plausible slip: the padding is read after the last lane too.
skip_padding_Always(r) ==
    IF Header_lane_padding(r.header).overflow
    THEN [rd |-> r, ok |-> FALSE, kind |-> Panic]
    ELSE skip_padding_read(
           r, PixelReader_read_u8s(r.pixel_reader, Header_lane_padding(r.header).v))

\* fn skip_padding: the padding of the lane is read, except after the last
\* lane of the image, and the lane is counted.
skip_padding(r) ==
    IF r.num_lanes_read + 1 < Reader_height(r) * r.header.number_of_color_planes
    THEN IF Header_lane_padding(r.header).overflow
         THEN [rd |-> r, ok |-> FALSE, kind |-> Panic]
         ELSE skip_padding_read(
                r, PixelReader_read_u8s(r.pixel_reader, Header_lane_padding(r.header).v))
    ELSE [rd |-> [r EXCEPT !.num_lanes_read = @ + 1], ok |-> TRUE, kind |-> ""]

\* next_lane after read_exact returned e
next_lane_read(r, buffer, e) ==
    IF ~e.ok THEN RowErr([r EXCEPT !.pixel_reader = e.pr], Filled(buffer, e.data), e.kind)
    ELSE WithBuffer(skip_padding([r EXCEPT !.pixel_reader = e.pr]), Filled(buffer, e.data))

\* fn next_lane
next_lane(r, buffer) ==
    IF Len(buffer) # Header_lane_proper_length(r.header)
    THEN RowErr(r, buffer, InvalidInput)
    ELSE next_lane_read(r, buffer, PixelReader_read_exact(r.pixel_reader, Len(buffer)))

\* rgb with the bytes read put at rgb[x * 3 + color], x from 0
PutChannel(rgb, color, bytes) ==
    [i \in 1..Len(rgb) |->
        IF (i - 1) % 3 = color /\ (i - 1) \div 3 < Len(bytes)
        THEN bytes[((i - 1) \div 3) + 1] ELSE rgb[i]]

\* A turn of `for color in 0..3` of next_row_rgb after its calls of read_u8
\* returned e
next_row_rgb_color_read(s, color, e) ==
    IF ~e.ok
    THEN RowErr([s.rd EXCEPT !.pixel_reader = e.pr], PutChannel(s.buffer, color, e.data),
                e.kind)
    ELSE WithBuffer(skip_padding([s.rd EXCEPT !.pixel_reader = e.pr]),
                    PutChannel(s.buffer, color, e.data))

\* One turn of `for color in 0..3` of next_row_rgb, from the result s of the
\* turns before: width calls of read_u8 into rgb[x * 3 + color], then
\* skip_padding.
next_row_rgb_color(s, color) ==
    IF ~s.ok THEN s
    ELSE next_row_rgb_color_read(
           s, color, PixelReader_read_u8s(s.rd.pixel_reader, Reader_width(s.rd)))

\* Reader::next_row_rgb
next_row_rgb(r, rgb) ==
    IF Reader_is_paletted(r) THEN RowErr(r, rgb, InvalidInput)
    ELSE IF r.num_lanes_read % 3 # 0 THEN RowErr(r, rgb, Panic)
    ELSE IF Len(rgb) # Reader_width(r) * 3 THEN RowErr(r, rgb, InvalidInput)
    ELSE next_row_rgb_color(
           next_row_rgb_color(next_row_rgb_color(RowOk(r, rgb), 0), 1), 2)

\* The buffers s.buffer = <<r, g, b>> after next_lane returned l for buffer i
next_row_rgb_separate_read(s, i, l) ==
    [rd |-> l.rd, buffer |-> [s.buffer EXCEPT ![i] = l.buffer], ok |-> l.ok, kind |-> l.kind]

\* self.next_lane(..)? of next_row_rgb_separate for buffer i of <<r, g, b>>,
\* from the result s of the calls before
next_row_rgb_separate_lane(s, i) ==
    IF ~s.ok THEN s
    ELSE next_row_rgb_separate_read(s, i, next_lane(s.rd, s.buffer[i]))

\* A plausible slip: next_row_rgb_separate without the test of is_paletted.
next_row_rgb_separate_NoTest(rd0, r, g, b) ==
    IF rd0.num_lanes_read % 3 # 0 THEN RowErr(rd0, <<r, g, b>>, Panic)
    ELSE next_row_rgb_separate_lane(
           next_row_rgb_separate_lane(
             next_row_rgb_separate_lane(RowOk(rd0, <<r, g, b>>), 1), 2), 3)

\* Reader::next_row_rgb_separate: the buffer of the result is <<r, g, b>>.
next_row_rgb_separate(rd0, r, g, b) ==
    IF Reader_is_paletted(rd0) THEN RowErr(rd0, <<r, g, b>>, InvalidInput)
    ELSE IF rd0.num_lanes_read % 3 # 0 THEN RowErr(rd0, <<r, g, b>>, Panic)
    ELSE next_row_rgb_separate_lane(
           next_row_rgb_separate_lane(
             next_row_rgb_separate_lane(RowOk(rd0, <<r, g, b>>), 1), 2), 3)

\* The steps of unpack_bits!(bits) from pixel p on, n = 8 / bits pixels per
\* byte: pixel p = i * n + j takes bits of buffer[offset + i].  The loop over
\* the whole bytes and the loop over the pixels of the last byte make the
\* same assignment, for p below (width * bits) / 8 * n and from there to
\* width.  An index outside the buffer is a panic.
RECURSIVE unpack_bits_from(_, _, _, _, _)
unpack_bits_from(buffer, offset, width, bits, p) ==
    IF p >= width THEN [buffer |-> buffer, panic |-> FALSE]
    ELSE IF p >= Len(buffer) \/ offset + (p \div (8 \div bits)) >= Len(buffer)
    THEN [buffer |-> buffer, panic |-> TRUE]
    ELSE unpack_bits_from(
           [buffer EXCEPT ![p + 1] =
               (buffer[offset + (p \div (8 \div bits)) + 1]
                  \div Pow2(8 - bits * ((p % (8 \div bits)) + 1))) % Pow2(bits)],
           offset, width, bits, p + 1)

unpack_bits(buffer, offset, width, bits) == unpack_bits_from(buffer, offset, width, bits, 0)

\* next_row_paletted, packed formats, after unpack_bits! returned u
next_row_packed_unpacked(r, u) ==
    IF u.panic THEN RowErr(r, u.buffer, Panic) ELSE RowOk(r, u.buffer)

\* next_row_paletted, packed formats, after next_lane returned l for
\* buffer[offset..buffer_len]
next_row_packed_lane(r, buffer, offset, l) ==
    IF ~l.ok THEN RowErr(l.rd, PutSlice(buffer, offset, l.buffer), l.kind)
    ELSE IF r.header.bit_depth \notin {1, 2, 4}
    THEN RowErr(l.rd, PutSlice(buffer, offset, l.buffer), Panic)
    ELSE next_row_packed_unpacked(
           l.rd, unpack_bits(PutSlice(buffer, offset, l.buffer), offset,
                             Reader_width(r), r.header.bit_depth))

\* A plausible slip: the packed row placed at the start of the buffer, where
\* the unpacked indices overwrite it.
next_row_packed_AtHead(r, buffer) ==
    IF Len(buffer) < Header_lane_proper_length(r.header) THEN RowErr(r, buffer, Panic)
    ELSE next_row_packed_lane(
           r, buffer, 0,
           next_lane(r, SubSeq(buffer, 1, Header_lane_proper_length(r.header))))

\* next_row_paletted, the packed formats (one plane, at most 16 colors);
\* offset = buffer.len() - lane_length is a subtraction of usize.
next_row_packed(r, buffer) ==
    IF Len(buffer) < Header_lane_proper_length(r.header) THEN RowErr(r, buffer, Panic)
    ELSE next_row_packed_lane(
           r, buffer, Len(buffer) - Header_lane_proper_length(r.header),
           next_lane(r, SubSeq(buffer,
                               Len(buffer) - Header_lane_proper_length(r.header) + 1,
                               Len(buffer))))

\* A plausible slip: the bits of a byte taken from the least significant.
planar_merge_LsbFirst(buffer, bytes, d) ==
    [i \in 1..Len(buffer) |->
        IF (i - 1) \div 8 < Len(bytes) /\ i - 1 < Len(buffer)
        THEN buffer[i]
               + ((bytes[((i - 1) \div 8) + 1] \div Pow2((i - 1) % 8)) % 2) * Pow2(d)
        ELSE buffer[i]]

\* A plausible slip: the planar loop without its test of the index.
planar_index_in_buffer_NoTest(index, buffer_len) == TRUE

\* The test `8 * j + b < buffer.len()` of the planar loop.
planar_index_in_buffer(index, buffer_len) == index < buffer_len

\* Whether an assignment buffer[8 * j + b] |= .. of the planar loop, for the
\* bytes read, falls outside the buffer (a panic).
planar_outside(buffer, bytes) ==
    \E j \in 0..(Len(bytes) - 1), b \in 0..7 :
        /\ planar_index_in_buffer(8 * j + b, Len(buffer))
        /\ 8 * j + b >= Len(buffer)

\* The buffer after the planar loop of plane d over the bytes read: bit
\* 7 - b of byte j goes to bit d of buffer[8 * j + b].  Bit d of the buffer is
\* 0 before, so that `|=` adds 2^d.
planar_merge(buffer, bytes, d) ==
    [i \in 1..Len(buffer) |->
        IF (i - 1) \div 8 < Len(bytes) /\ planar_index_in_buffer(i - 1, Len(buffer))
        THEN buffer[i]
               + ((bytes[((i - 1) \div 8) + 1] \div Pow2(7 - ((i - 1) % 8))) % 2) * Pow2(d)
        ELSE buffer[i]]

\* A turn of `for d in 0..number_of_color_planes` after its calls of read_u8
\* returned e
next_row_planar_plane_read(s, d, e) ==
    IF planar_outside(s.buffer, e.data)
    THEN RowErr([s.rd EXCEPT !.pixel_reader = e.pr], s.buffer, Panic)
    ELSE IF ~e.ok
    THEN RowErr([s.rd EXCEPT !.pixel_reader = e.pr], planar_merge(s.buffer, e.data, d),
                e.kind)
    ELSE WithBuffer(skip_padding([s.rd EXCEPT !.pixel_reader = e.pr]),
                    planar_merge(s.buffer, e.data, d))

\* One turn of `for d in 0..number_of_color_planes` of next_row_paletted,
\* from the result s of the turns before: lane_length calls of read_u8, each
\* followed by the loop over the bits of the byte, then skip_padding.
next_row_planar_plane(s, d) ==
    IF ~s.ok THEN s
    ELSE next_row_planar_plane_read(
           s, d, PixelReader_read_u8s(s.rd.pixel_reader,
                                      Header_lane_proper_length(s.rd.header)))

RECURSIVE next_row_planar_planes(_, _, _)
next_row_planar_planes(s, d, number_of_color_planes) ==
    IF d >= number_of_color_planes THEN s
    ELSE next_row_planar_planes(next_row_planar_plane(s, d), d + 1, number_of_color_planes)

\* Reader::next_row_paletted
next_row_paletted(r, buffer) ==
    IF ~Reader_is_paletted(r) THEN RowErr(r, buffer, InvalidInput)
    ELSE IF Reader_palette_length(r) = <<256>> THEN next_lane(r, buffer)
    ELSE IF r.header.number_of_color_planes = 1 THEN next_row_packed(r, buffer)
    ELSE IF r.header.bit_depth # 1 THEN RowErr(r, buffer, Panic)
    ELSE next_row_planar_planes(RowOk(r, Repeat(0, Len(buffer))), 0,
                                r.header.number_of_color_planes)

\* A plausible slip: the palette of a monochrome image is copied from the
\* header like the other small palettes.
get_small_palette_of_FromHeader(pl, h, buffer) ==
    IF pl # <<>> /\ pl[1] \in 1..16
    THEN IF Len(buffer) < pl[1] * 3
         THEN [some |-> TRUE, n |-> pl[1], buffer |-> buffer, panic |-> TRUE]
         ELSE [some |-> TRUE, n |-> pl[1], panic |-> FALSE,
               buffer |-> Filled(buffer, SubSeq(h.palette, 1, pl[1] * 3))]
    ELSE IF pl = <<256>>
    THEN [some |-> FALSE, n |-> 0, buffer |-> buffer, panic |-> FALSE]
    ELSE [some |-> TRUE, n |-> 0, buffer |-> buffer, panic |-> FALSE]

\* get_small_palette for palette_length() = pl: some = FALSE is None, else
\* Some(n); a write outside the buffer is a panic.
get_small_palette_of(pl, h, buffer) ==
    IF pl = <<2>>
    THEN IF Len(buffer) < 6
         THEN [some |-> TRUE, n |-> 2, buffer |-> buffer, panic |-> TRUE]
         ELSE [some |-> TRUE, n |-> 2, panic |-> FALSE,
               buffer |-> Filled(buffer, <<0, 0, 0, 255, 255, 255>>)]
    ELSE IF pl # <<>> /\ pl[1] \in 1..16
    THEN IF Len(buffer) < pl[1] * 3
         THEN [some |-> TRUE, n |-> pl[1], buffer |-> buffer, panic |-> TRUE]
         ELSE [some |-> TRUE, n |-> pl[1], panic |-> FALSE,
               buffer |-> Filled(buffer, SubSeq(h.palette, 1, pl[1] * 3))]
    ELSE IF pl = <<256>>
    THEN [some |-> FALSE, n |-> 0, buffer |-> buffer, panic |-> FALSE]
    ELSE [some |-> TRUE, n |-> 0, buffer |-> buffer, panic |-> FALSE]

\* fn get_small_palette
get_small_palette(h, buffer) == get_small_palette_of(Header_palette_length(h), h, buffer)

PaletteOk(r, buffer, n) == [rd |-> r, buffer |-> buffer, ok |-> TRUE, kind |-> "", n |-> n]
PaletteErr(r, buffer, kind) == [rd |-> r, buffer |-> buffer, ok |-> FALSE, kind |-> kind, n |-> 0]

TEMP_BUFFER_LENGTH == PALETTE_LENGTH + 1

\* fn get_palette_impl on the cursor at position pos: the byte at pos, then
\* PALETTE_LENGTH bytes into buffer[0..256 * 3]; pos in the result is the
\* position of the cursor afterwards.
get_palette_impl(stream, pos, buffer) ==
    IF pos >= Len(stream)
    THEN [buffer |-> buffer, ok |-> FALSE, kind |-> UnexpectedEof, pos |-> pos]
    ELSE IF stream[pos + 1] # PALETTE_START
    THEN [buffer |-> buffer, ok |-> FALSE, kind |-> InvalidData, pos |-> pos + 1]
    ELSE IF Len(buffer) < PALETTE_LENGTH
    THEN [buffer |-> buffer, ok |-> FALSE, kind |-> Panic, pos |-> pos + 1]
    ELSE IF Len(stream) - (pos + 1) < PALETTE_LENGTH
    THEN [buffer |-> buffer, ok |-> FALSE, kind |-> UnexpectedEof, pos |-> pos + 1]
    ELSE [buffer |-> Filled(buffer, SubSeq(stream, pos + 2, pos + 1 + PALETTE_LENGTH)),
          ok |-> TRUE, kind |-> "", pos |-> pos + 1 + PALETTE_LENGTH]

\* stream.seek(io::SeekFrom::Start(pos)) on the cursor of the reader r
seek_start(r, pos) == [r EXCEPT !.pixel_reader.d.pos = pos]

\* A plausible slip: the cursor is left where get_palette_impl stopped.
get_palette_read_NoSeekBack(r, original_pos, impl) ==
    IF ~impl.ok THEN PaletteErr(seek_start(r, impl.pos), impl.buffer, impl.kind)
    ELSE PaletteOk(seek_start(r, impl.pos), impl.buffer, 256)

\* get_palette after get_palette_impl returned impl, the cursor where impl
\* left it: the cursor is put back to original_pos, then the result of impl
\* is looked at.
get_palette_read(r, original_pos, impl) ==
    IF ~impl.ok
    THEN PaletteErr(seek_start(seek_start(r, impl.pos), original_pos), impl.buffer, impl.kind)
    ELSE PaletteOk(seek_start(seek_start(r, impl.pos), original_pos), impl.buffer, 256)

\* A plausible slip: the seek goes to 768 bytes before the end, past the
\* marker.
get_palette_large_Seek768(r, buffer, small) ==
    IF small.panic THEN PaletteErr(r, buffer, Panic)
    ELSE IF small.some THEN PaletteOk(r, small.buffer, small.n)
    ELSE IF Len(r.pixel_reader.d.stream) - PALETTE_LENGTH < 0
    THEN PaletteErr(r, buffer, InvalidInput)
    ELSE get_palette_read(
           r, r.pixel_reader.d.pos,
           get_palette_impl(r.pixel_reader.d.stream,
                            Len(r.pixel_reader.d.stream) - PALETTE_LENGTH, buffer))

\* get_palette after get_small_palette returned small: the cursor is moved
\* to 769 bytes before the end (a seek before the start of the file fails
\* with InvalidInput and leaves the cursor where it was), the palette is
\* read, and the cursor is put back.
get_palette_large(r, buffer, small) ==
    IF small.panic THEN PaletteErr(r, buffer, Panic)
    ELSE IF small.some THEN PaletteOk(r, small.buffer, small.n)
    ELSE IF Len(r.pixel_reader.d.stream) - TEMP_BUFFER_LENGTH < 0
    THEN PaletteErr(r, buffer, InvalidInput)
    ELSE get_palette_read(
           r, r.pixel_reader.d.pos,
           get_palette_impl(r.pixel_reader.d.stream,
                            Len(r.pixel_reader.d.stream) - TEMP_BUFFER_LENGTH, buffer))

\* Reader::get_palette
get_palette(r, buffer) == get_palette_large(r, buffer, get_small_palette(r.header, buffer))

\* The loop of read_palette: the stream at spos is read into
\* temp_buffer[pos..TEMP_BUFFER_LENGTH] until a read returns 0.  Read number
\* t (from 0) of the stream returns at most chunks[t % Len(chunks) + 1]
\* bytes.
RECURSIVE read_palette_loop(_, _, _, _, _, _)
read_palette_loop(stream, spos, temp_buffer, pos, chunks, t) ==
    LET read == Min(Min(TEMP_BUFFER_LENGTH - pos, Len(stream) - Min(spos, Len(stream))),
                    chunks[(t % Len(chunks)) + 1])
    IN  IF read # 0
        THEN read_palette_loop(stream, spos + read,
                               PutSlice(temp_buffer, pos, SubSeq(stream, spos + 1, spos + read)),
                               (pos + read) % TEMP_BUFFER_LENGTH, chunks, t + 1)
        ELSE [temp_buffer |-> temp_buffer, pos |-> pos]

\* A plausible slip: the palette is copied from the start of temp_buffer.
read_palette_end_NotRotated(r, buffer, l) ==
    IF l.temp_buffer[1] # PALETTE_START THEN PaletteErr(r, buffer, InvalidData)
    ELSE IF Len(buffer) < PALETTE_LENGTH THEN PaletteErr(r, buffer, Panic)
    ELSE PaletteOk(r, Filled(buffer, SubSeq(l.temp_buffer, 2, TEMP_BUFFER_LENGTH)), 256)

\* read_palette after its loop ended with l
read_palette_end(r, buffer, l) ==
    IF l.temp_buffer[l.pos + 1] # PALETTE_START THEN PaletteErr(r, buffer, InvalidData)
    ELSE IF Len(buffer) < PALETTE_LENGTH THEN PaletteErr(r, buffer, Panic)
    ELSE PaletteOk(r,
           Filled(buffer,
                  SubSeq(l.temp_buffer, l.pos + 2, TEMP_BUFFER_LENGTH)
                    \o SubSeq(l.temp_buffer, 1, l.pos)),
           256)

\* read_palette after get_small_palette returned small
read_palette_large(r, buffer, small, chunks) ==
    IF small.panic THEN PaletteErr(r, buffer, Panic)
    ELSE IF small.some THEN PaletteOk(r, small.buffer, small.n)
    ELSE read_palette_end(
           r, buffer,
           read_palette_loop(r.pixel_reader.d.stream, r.pixel_reader.d.pos,
                             Repeat(0, TEMP_BUFFER_LENGTH), 0, chunks, 0))

\* Reader::read_palette(self, buffer) on a stream whose reads return at most
\* chunks[..] bytes: the reader is consumed.
read_palette_chunked(r, buffer, chunks) ==
    read_palette_large(r, buffer, get_small_palette(r.header, buffer), chunks)

\* Reader::read_palette(self, buffer) on a cursor, whose reads return all
\* the bytes the buffer takes
read_palette(r, buffer) == read_palette_chunked(r, buffer, <<TEMP_BUFFER_LENGTH>>)

\* A plausible slip: the loop runs from the first pixel of the row up,
\* `for x in 0..width`; expand_row_up is that loop from pixel x up to last.
RECURSIVE expand_row_up(_, _, _, _, _)
expand_row_up(rgb, palette, from, x, last) ==
    IF x > last THEN [buffer |-> rgb, panic |-> FALSE]
    ELSE IF from + x >= Len(rgb) THEN [buffer |-> rgb, panic |-> TRUE]
    ELSE IF rgb[from + x + 1] * 3 + 2 >= Len(palette) \/ from + x * 3 + 2 >= Len(rgb)
    THEN [buffer |-> rgb, panic |-> TRUE]
    ELSE expand_row_up(
           [rgb EXCEPT ![from + x * 3 + 1] = palette[rgb[from + x + 1] * 3 + 1],
                       ![from + x * 3 + 2] = palette[rgb[from + x + 1] * 3 + 2],
                       ![from + x * 3 + 3] = palette[rgb[from + x + 1] * 3 + 3]],
           palette, from, x + 1, last)

expand_row_from_LeftToRight(rgb, palette, from, x) ==
    expand_row_up(rgb, palette, from, 0, x)

\* The loop `for x in (0..width).rev()` of read_rgb_pixels from pixel x
\* down, on the row that starts at rgb[from]: the index rgb[from + x] is
\* replaced by its color, rgb[from + x * 3 ..][0..3].  An index outside rgb
\* or the palette is a panic.
RECURSIVE expand_row_from(_, _, _, _)
expand_row_from(rgb, palette, from, x) ==
    IF x < 0 THEN [buffer |-> rgb, panic |-> FALSE]
    ELSE IF from + x >= Len(rgb) THEN [buffer |-> rgb, panic |-> TRUE]
    ELSE IF rgb[from + x + 1] * 3 + 2 >= Len(palette) \/ from + x * 3 + 2 >= Len(rgb)
    THEN [buffer |-> rgb, panic |-> TRUE]
    ELSE expand_row_from(
           [rgb EXCEPT ![from + x * 3 + 1] = palette[rgb[from + x + 1] * 3 + 1],
                       ![from + x * 3 + 2] = palette[rgb[from + x + 1] * 3 + 2],
                       ![from + x * 3 + 3] = palette[rgb[from + x + 1] * 3 + 3]],
           palette, from, x - 1)

\* The loop `for y in 0..height` of read_rgb_pixels on a paletted image, from
\* row y on: next_row_paletted into rgb[y * row_size..y * row_size + width]
\* (read_rgb_pixels_paletted_row is the loop after it returned row: an
\* UnexpectedEof is not an error), then the indices become colors
\* (read_rgb_pixels_paletted_colors is the loop after that).
RECURSIVE read_rgb_pixels_paletted_from(_, _, _, _)
RECURSIVE read_rgb_pixels_paletted_row(_, _, _, _)
RECURSIVE read_rgb_pixels_paletted_colors(_, _, _, _)
read_rgb_pixels_paletted_from(r, rgb, palette, y) ==
    IF y >= Reader_height(r) THEN RowOk(r, rgb)
    ELSE IF y * Reader_width(r) * 3 + Reader_width(r) > Len(rgb) THEN RowErr(r, rgb, Panic)
    ELSE read_rgb_pixels_paletted_row(
           rgb, palette, y,
           next_row_paletted(r, SubSeq(rgb, y * Reader_width(r) * 3 + 1,
                                       y * Reader_width(r) * 3 + Reader_width(r))))

read_rgb_pixels_paletted_row(rgb, palette, y, row) ==
    IF ~row.ok /\ row.kind # UnexpectedEof
    THEN RowErr(row.rd, PutSlice(rgb, y * Reader_width(row.rd) * 3, row.buffer), row.kind)
    ELSE read_rgb_pixels_paletted_colors(
           row.rd, palette, y,
           expand_row_from(PutSlice(rgb, y * Reader_width(row.rd) * 3, row.buffer),
                           palette, y * Reader_width(row.rd) * 3,
                           Reader_width(row.rd) - 1))

read_rgb_pixels_paletted_colors(r, palette, y, colors) ==
    IF colors.panic THEN RowErr(r, colors.buffer, Panic)
    ELSE read_rgb_pixels_paletted_from(r, colors.buffer, palette, y + 1)

\* The loop `for y in 0..height` of read_rgb_pixels on an RGB image, from row
\* y on: next_row_rgb into rgb[y * row_size..(y + 1) * row_size]
\* (read_rgb_pixels_rgb_row is the loop after it returned row).
RECURSIVE read_rgb_pixels_rgb_from(_, _, _), read_rgb_pixels_rgb_row(_, _, _)
read_rgb_pixels_rgb_from(r, rgb, y) ==
    IF y >= Reader_height(r) THEN RowOk(r, rgb)
    ELSE IF (y + 1) * Reader_width(r) * 3 > Len(rgb) THEN RowErr(r, rgb, Panic)
    ELSE read_rgb_pixels_rgb_row(
           rgb, y, next_row_rgb(r, SubSeq(rgb, y * Reader_width(r) * 3 + 1,
                                          (y + 1) * Reader_width(r) * 3)))

\* A plausible slip: the UnexpectedEof of an RGB row is not an error either.
read_rgb_pixels_rgb_row_Tolerant(rgb, y, row) ==
    IF ~row.ok /\ row.kind # UnexpectedEof
    THEN RowErr(row.rd, PutSlice(rgb, y * Reader_width(row.rd) * 3, row.buffer), row.kind)
    ELSE read_rgb_pixels_rgb_from(
           row.rd, PutSlice(rgb, y * Reader_width(row.rd) * 3, row.buffer), y + 1)

read_rgb_pixels_rgb_row(rgb, y, row) ==
    IF ~row.ok
    THEN RowErr(row.rd, PutSlice(rgb, y * Reader_width(row.rd) * 3, row.buffer), row.kind)
    ELSE read_rgb_pixels_rgb_from(
           row.rd, PutSlice(rgb, y * Reader_width(row.rd) * 3, row.buffer), y + 1)

\* read_rgb_pixels of a paletted image after get_palette returned p
read_rgb_pixels_paletted(rgb, p) ==
    IF ~p.ok THEN RowErr(p.rd, rgb, p.kind)
    ELSE read_rgb_pixels_paletted_from(p.rd, rgb, p.buffer, 0)

\* Reader::read_rgb_pixels
read_rgb_pixels(r, rgb) ==
    IF Reader_is_paletted(r)
    THEN read_rgb_pixels_paletted(rgb, get_palette(r, Repeat(0, PALETTE_LENGTH)))
    ELSE read_rgb_pixels_rgb_from(r, rgb, 0)

\* The values of the variables of an image before anything was called.
NoImage == [paletted |-> FALSE, size |-> <<0, 0>>, pixels |-> <<>>, palette |-> <<>>]
NoOutput == [pixels |-> <<>>, rows |-> 0, palette |-> <<>>, colors |-> 0]
NoResult == [ok |-> FALSE, kind |-> "none"]

\* Before any call of a driver that calls in any order: the name of the last
\* call, the lengths of the buffers it was given, the number of calls made
\* and the number of calls that wrote a row and returned Ok.
NoCall == [call |-> "", lens |-> <<>>, n |-> 0, written |-> 0]

---------------------------------------------------------------------------
(* The RLE round trip of low_level/rle.rs tests and fuzz_targets/rle.rs:   *)
(* write data, flush once, read back to the end of the stream.             *)

\* Inputs are built from runs, so that runs longer than the 62 the
\* compressor accumulates, and lanes shorter and longer than a run, occur.
MaxSegs == 2
ByteVals == {0, 191, 192}
RunLens == {1, 2, 63}
LaneLengths == {1, 2, 8, 16, 64}
ReadSizes == {5, 32}

Segments == [v : ByteVals, n : RunLens]

RECURSIVE SeqsUpTo(_, _)
SeqsUpTo(S, n) ==
    IF n = 0 THEN {<<>>}
    ELSE LET shorter == SeqsUpTo(S, n - 1)
         IN  shorter \cup {Append(s, x) : s \in {t \in shorter : Len(t) = n - 1}, x \in S}

RECURSIVE Expand(_)
Expand(segs) ==
    IF segs = <<>> THEN <<>>
    ELSE Repeat(Head(segs).v, Head(segs).n) \o Expand(Tail(segs))

RleInputs == {Expand(s) : s \in SeqsUpTo(Segments, MaxSegs)}

InitRle ==
    /\ data \in RleInputs
    /\ mode \in {"bulk", "one_by_one"}
    /\ \E ll \in LaneLengths : comp = Compressor_new(<<>>, ll)
    /\ fed = 0
    /\ dec = Decompressor_new(<<>>)
    /\ result = <<>>
    /\ pc = "write"
    /\ hin = NoWrite /\ file = <<>> /\ wres = NoWriteResult /\ hres = NoLoadResult
    /\ img = NoImage /\ wr = NoWriter /\ rd = NoReader /\ out = NoOutput /\ res = NoResult
    /\ api = NoCall

\* compressor.write_all(&data)
WriteBulk ==
    /\ pc = "write" /\ mode = "bulk" /\ fed = 0 /\ Len(data) > 0
    /\ comp' = Compressor_write(comp, data)
    /\ fed' = Len(data)
    /\ UNCHANGED <<pc, data, mode, dec, result, hdrVars, imgVars>>

\* compressor.write_u8(d) / compressor.write_all(&[d])
WriteOne ==
    /\ pc = "write" /\ mode = "one_by_one" /\ fed < Len(data)
    /\ comp' = Compressor_write(comp, <<data[fed + 1]>>)
    /\ fed' = fed + 1
    /\ UNCHANGED <<pc, data, mode, dec, result, hdrVars, imgVars>>

\* compressor.flush(), then Decompressor::new(&compressed[..])
Flush ==
    /\ pc = "write" /\ fed = Len(data)
    /\ comp' = Compressor_flush(comp)
    /\ dec' = Decompressor_new(comp'.stream)
    /\ pc' = "read"
    /\ UNCHANGED <<data, mode, fed, result, hdrVars, imgVars>>

\* One decompressor.read call with a buffer of n bytes: one byte for
\* read_u8 / read_exact(&mut [0; 1]) of round_trip_one_by_one, a larger buffer
\* for read_to_end of round_trip.  A read that returns 0 bytes is the end of
\* the stream.
Read ==
    /\ pc = "read"
    /\ \E n \in (IF mode = "bulk" THEN ReadSizes ELSE {1}) :
         LET r == Decompressor_read(dec, n)
         IN  /\ dec' = r.d
             /\ result' = result \o r.data
             /\ pc' = IF ~r.done THEN "hang"
                      ELSE IF ~r.ok THEN "error"
                      ELSE IF r.data = <<>> THEN "done" ELSE "read"
    /\ UNCHANGED <<data, mode, fed, comp, hdrVars, imgVars>>

NextRle == WriteBulk \/ WriteOne \/ Flush \/ Read

SpecRle == InitRle /\ [][NextRle]_vars

---------------------------------------------------------------------------
(* The header codec: Header::load on the bytes of a file (the fuzz target  *)
(* fuzz_targets/header.rs), and header::write followed by Header::load.    *)

\* The values the fields of the files take.
Magics        == {10, 11}
VersionBytes  == {0, 1, 5}
EncodingBytes == {0, 1, 2}
BitDepths     == {1, 2, 3, 4, 8}
PlaneCounts   == {0, 1, 2, 3, 4}
\* <<start, end>> of a dimension
XRanges == {<<0, 0>>, <<0, 8>>, <<1, 0>>, <<0, 65535>>, <<1, 65535>>, <<65535, 65535>>}
YRanges == {<<0, 0>>, <<2, 1>>, <<0, 65535>>, <<7, 65535>>}
LaneLengthWords == {0, 1, 2, 8191, 8192, 65535}
\* A file cut after this many bytes
CutLengths == {0, 1, 2, 3, 4, 11, 12, 127}

HeaderPalette == [i \in 1..48 |-> (5 * i + 1) % 256]

HeaderBytes(magic, version, encoding, bit_depth, xr, yr, planes, lane_length) ==
    <<magic, version, encoding, bit_depth>>
      \o LE16(xr[1]) \o LE16(yr[1]) \o LE16(xr[2]) \o LE16(yr[2])
      \o LE16(300) \o LE16(72) \o HeaderPalette
      \o <<0, planes>> \o LE16(lane_length) \o LE16(1) \o Repeat(0, 58)

\* The arguments of header::write
WriteWidths  == {0, 1, 2, 5, 255, 256, 65534, 65535}
WriteHeights == {0, 1, 2, 4660, 65535}
WriteDpis    == {<<0, 0>>, <<300, 300>>, <<65535, 1>>}

InitHeader ==
    /\ data = <<>> /\ mode = "bulk" /\ fed = 0 /\ result = <<>>
    /\ comp = Compressor_new(<<>>, 1) /\ dec = Decompressor_new(<<>>)
    /\ wres = NoWriteResult /\ hres = NoLoadResult
    /\ img = NoImage /\ wr = NoWriter /\ rd = NoReader /\ out = NoOutput /\ res = NoResult
    /\ api = NoCall
    /\ \/ /\ pc = "load"
          /\ hin = NoWrite
          /\ \/ \E m \in Magics, v \in VersionBytes, e \in EncodingBytes, b \in BitDepths,
                   xr \in XRanges, yr \in YRanges, p \in PlaneCounts, l \in LaneLengthWords :
                     file = HeaderBytes(m, v, e, b, xr, yr, p, l)
             \/ \E xr \in XRanges, n \in CutLengths :
                     file = SubSeq(HeaderBytes(10, 5, 1, 8, xr, <<0, 0>>, 1, 65535), 1, n)
       \/ /\ pc = "write"
          /\ hin \in [paletted : BOOLEAN, size : WriteWidths \X WriteHeights, dpi : WriteDpis]
          /\ file = <<>>

\* header::write(&mut stream, paletted, size, dpi) on a fresh Vec
HeaderWrite ==
    /\ pc = "write"
    /\ wres' = header_write(file, hin.paletted, hin.size, hin.dpi)
    /\ file' = wres'.stream
    /\ pc' = IF wres'.ok THEN "load" ELSE "done"
    /\ UNCHANGED <<hin, hres, rleVars, imgVars>>

\* Header::load(&mut stream)
HeaderLoad ==
    /\ pc = "load"
    /\ hres' = Header_load(file)
    /\ pc' = "done"
    /\ UNCHANGED <<hin, file, wres, rleVars, imgVars>>

NextHeader == HeaderWrite \/ HeaderLoad

SpecHeader == InitHeader /\ [][NextHeader]_vars

---------------------------------------------------------------------------
(* The image round trip of the tests of lib.rs and of                      *)
(* fuzz_targets/roundtrip.rs: an image is written by WriterRgb or          *)
(* WriterPaletted to a Vec, and a Reader is opened on the bytes.           *)

MaxWidth == 3
MaxHeight == 2

\* Widths up to MaxWidth, and two widths that hold runs longer than the 62
\* bytes the compressor accumulates, one odd (padded lanes) and one even.
ImageWidths == (1..MaxWidth) \cup {63, 64}
ImageHeights == 1..MaxHeight
PixelVals == {0, 12, 192}
ImageDpi == <<300, 300>>

\* The pixels of an image repeat a tile of 1, 2 or 3 bytes.
Tiles == UNION {[1..n -> PixelVals] : n \in {1, 2, 3}}
Tiled(tile, n) == [i \in 1..n |-> tile[((i - 1) % Len(tile)) + 1]]

\* Palettes of k colors
PaletteSizes == {0, 1, 2, 256}
PaletteOf(k) == [i \in 1..(3 * k) |-> (7 * i + 5) % 256]

InitRoundTrip ==
    /\ data = <<>> /\ mode = "bulk" /\ fed = 0 /\ result = <<>>
    /\ comp = Compressor_new(<<>>, 1) /\ dec = Decompressor_new(<<>>)
    /\ hin = NoWrite /\ wres = NoWriteResult /\ hres = NoLoadResult
    /\ file = <<>>
    /\ \E paletted \in BOOLEAN, w \in ImageWidths, h \in ImageHeights, tile \in Tiles,
          k \in PaletteSizes :
         /\ ~paletted => k = 0
         /\ img = [paletted |-> paletted, size |-> <<w, h>>,
                   pixels |-> Tiled(tile, IF paletted THEN w * h ELSE w * h * 3),
                   palette |-> PaletteOf(k)]
    /\ wr = NoWriter /\ rd = NoReader /\ out = NoOutput /\ res = NoResult
    /\ api = NoCall
    /\ pc = "new"

\* Row y (from 0) of the pixels given to the writer, of row_size bytes
ImageRow(y, row_size) == SubSeq(img.pixels, y * row_size + 1, (y + 1) * row_size)

RowsWritten == img.size[2] - wr.num_rows_left

\* R, G, B, R, G, B, ... from the three lanes of a row
Interleave(r, g, b) ==
    [i \in 1..(3 * Len(r)) |->
        IF (i - 1) % 3 = 0 THEN r[((i - 1) \div 3) + 1]
        ELSE IF (i - 1) % 3 = 1 THEN g[((i - 1) \div 3) + 1]
        ELSE b[((i - 1) \div 3) + 1]]

\* The driver's step after a call of a writer that returned w (new, or one
\* that wrote a row)
AfterWrite(w) ==
    /\ wr' = w.w
    /\ res' = [ok |-> w.ok, kind |-> w.kind]
    /\ pc' = IF w.ok THEN "rows" ELSE "done"
    /\ UNCHANGED <<img, rd, out, file, hin, wres, hres, rleVars, api>>

\* WriterRgb::new(&mut pcx, (width, height), dpi) or WriterPaletted::new
WriterNew ==
    /\ pc = "new"
    /\ AfterWrite(Writer_new(file, img.paletted, img.size, ImageDpi))

\* writer.write_row_from_interleaved(&row)
WriteRowInterleaved ==
    /\ pc = "rows" /\ ~img.paletted /\ wr.num_rows_left > 0
    /\ AfterWrite(WriterRgb_write_row_from_interleaved(
                     wr, ImageRow(RowsWritten, 3 * img.size[1])))

\* writer.write_row_from_separate(&r, &g, &b)
WriteRowSeparate ==
    /\ pc = "rows" /\ ~img.paletted /\ wr.num_rows_left > 0
    /\ LET row == ImageRow(RowsWritten, 3 * img.size[1])
       IN  AfterWrite(WriterRgb_write_row_from_separate(
                        wr, Channel(row, 0, img.size[1]), Channel(row, 1, img.size[1]),
                        Channel(row, 2, img.size[1])))

\* writer.write_row(&row) of a WriterPaletted
WriteRowPaletted ==
    /\ pc = "rows" /\ img.paletted /\ wr.num_rows_left > 0
    /\ AfterWrite(WriterPaletted_write_row(wr, ImageRow(RowsWritten, img.size[1])))

\* The driver's step after the call w that consumed the writer: the Vec
\* holds the file.
AfterLast(w) ==
    /\ wr' = w.w
    /\ res' = [ok |-> w.ok, kind |-> w.kind]
    /\ file' = w.w.compressor.stream
    /\ pc' = IF w.ok THEN "open" ELSE "done"
    /\ UNCHANGED <<img, rd, out, hin, wres, hres, rleVars, api>>

\* writer.finish() of a WriterRgb, at any time
Finish ==
    /\ pc = "rows" /\ ~img.paletted
    /\ AfterLast(WriterRgb_finish(wr))

\* writer.write_palette(&palette) of a WriterPaletted, at any time
WritePalette ==
    /\ pc = "rows" /\ img.paletted
    /\ AfterLast(WriterPaletted_write_palette(wr, img.palette))

\* The driver's step after Reader::from_mem returned n
AfterOpen(n) ==
    /\ rd' = n.rd
    /\ res' = [ok |-> n.ok, kind |-> n.kind]
    /\ pc' = IF n.ok THEN "opened" ELSE "done"
    /\ out' = NoOutput
    /\ UNCHANGED <<img, wr, file, hin, wres, hres, rleVars, api>>

\* Reader::from_mem(&pcx)
ReaderNew ==
    /\ pc = "open"
    /\ AfterOpen(Reader_new(file))

\* The driver's step after read_rgb_pixels returned p
AfterPixels(p) ==
    /\ rd' = p.rd
    /\ res' = [ok |-> p.ok, kind |-> p.kind]
    /\ out' = [out EXCEPT !.pixels = p.buffer, !.rows = Reader_height(rd)]
    /\ pc' = "done"
    /\ UNCHANGED <<img, wr, file, hin, wres, hres, rleVars, api>>

\* reader.read_rgb_pixels(&mut rgb) on the Reader just opened, rgb of
\* width * height * 3 zeros
ReadRgbPixels ==
    /\ pc = "opened" /\ out.rows = 0
    /\ AfterPixels(read_rgb_pixels(
                     rd, Repeat(0, Reader_width(rd) * Reader_height(rd) * 3)))

\* The driver's step after next_row_rgb_separate returned p: the row read is
\* added to out.pixels.
AfterRowRgb(p) ==
    /\ rd' = p.rd
    /\ res' = [ok |-> p.ok, kind |-> p.kind]
    /\ out' = [out EXCEPT
                 !.pixels = @ \o Interleave(p.buffer[1], p.buffer[2], p.buffer[3]),
                 !.rows = @ + 1]
    /\ pc' = IF p.ok THEN "opened" ELSE "done"
    /\ UNCHANGED <<img, wr, file, hin, wres, hres, rleVars, api>>

\* reader.next_row_rgb_separate(&mut r, &mut g, &mut b), the buffers of
\* width bytes
NextRowRgbSeparate ==
    /\ pc = "opened" /\ ~Reader_is_paletted(rd) /\ out.rows < Reader_height(rd)
    /\ AfterRowRgb(next_row_rgb_separate(rd, Repeat(0, Reader_width(rd)),
                                         Repeat(0, Reader_width(rd)),
                                         Repeat(0, Reader_width(rd))))

\* The driver's step after next_row_paletted returned p: the row read is
\* added to out.pixels.
AfterRowPaletted(p) ==
    /\ rd' = p.rd
    /\ res' = [ok |-> p.ok, kind |-> p.kind]
    /\ out' = [out EXCEPT !.pixels = @ \o p.buffer, !.rows = @ + 1]
    /\ pc' = IF p.ok THEN "opened" ELSE "done"
    /\ UNCHANGED <<img, wr, file, hin, wres, hres, rleVars, api>>

\* reader.next_row_paletted(&mut row), row of width bytes
NextRowPaletted ==
    /\ pc = "opened" /\ Reader_is_paletted(rd) /\ out.rows < Reader_height(rd)
    /\ AfterRowPaletted(next_row_paletted(rd, Repeat(0, Reader_width(rd))))

\* The driver's step after read_palette returned p
AfterPalette(p) ==
    /\ res' = [ok |-> p.ok, kind |-> p.kind]
    /\ out' = [out EXCEPT !.palette = p.buffer, !.colors = p.n]
    /\ pc' = "done"
    /\ UNCHANGED <<img, wr, rd, file, hin, wres, hres, rleVars, api>>

\* reader.read_palette(&mut palette), palette of 256 * 3 bytes, once the
\* rows were read by next_row_paletted
ReadPalette ==
    /\ pc = "opened" /\ Reader_is_paletted(rd) /\ out.rows = Reader_height(rd)
    /\ AfterPalette(read_palette(rd, Repeat(0, PALETTE_LENGTH)))

NextRoundTrip ==
    \/ WriterNew \/ WriteRowInterleaved \/ WriteRowSeparate \/ WriteRowPaletted
    \/ Finish \/ WritePalette
    \/ ReaderNew \/ ReadRgbPixels \/ NextRowRgbSeparate \/ NextRowPaletted \/ ReadPalette

SpecRoundTrip == InitRoundTrip /\ [][NextRoundTrip]_vars

---------------------------------------------------------------------------
(* The fuzz target fuzz_targets/entire.rs and tests::fuzzer_test_case of   *)
(* lib.rs: a Reader is opened on arbitrary bytes and, if that succeeds,    *)
(* read_rgb_pixels is called once.                                         *)

\* Widths up to MaxWidth, and the widths around a whole byte of 1-bit pixels
ReadWidths == (1..MaxWidth) \cup {8, 9}
ReadHeights == 1..MaxHeight

\* Bytes after the header: a literal, a code of 0 bytes (or the value
\* 0xC0), a code of 2 bytes, a code of 63 bytes (or the value 0xFF)
BodyVals == {1, 192, 194, 255}
BodyTiles == UNION {[1..n -> BodyVals] : n \in {1, 2}}
BodyLengths == {0, 1, 4, 30}

\* What ends a file: nothing, a 256-color palette, or 769 bytes that do not
\* start with PALETTE_START
NoTrailer == <<>>
PaletteTrailer == <<PALETTE_START>> \o [i \in 1..PALETTE_LENGTH |-> (i * 11) % 256]
BadTrailer == <<PALETTE_START + 1>> \o [i \in 1..PALETTE_LENGTH |-> (i * 11) % 256]

\* Ranges of x and y that are rejected or give a small image
SmallXRanges == XRanges \ {<<1, 65535>>}
SmallYRanges == YRanges \ {<<7, 65535>>}

InitRead ==
    /\ data = <<>> /\ mode = "bulk" /\ fed = 0 /\ result = <<>>
    /\ comp = Compressor_new(<<>>, 1) /\ dec = Decompressor_new(<<>>)
    /\ hin = NoWrite /\ wres = NoWriteResult /\ hres = NoLoadResult
    /\ img = NoImage /\ wr = NoWriter /\ rd = NoReader /\ out = NoOutput /\ res = NoResult
    /\ api = NoCall
    /\ pc = "open"
    /\ \/ \E e \in {0, 1}, f \in SupportedFormats, w \in ReadWidths, h \in ReadHeights,
             padding \in {0, 1}, tile \in BodyTiles, n \in BodyLengths,
             trailer \in {NoTrailer, PaletteTrailer, BadTrailer} :
            /\ n = 0 => Len(tile) = 1
            /\ trailer # NoTrailer => f = <<1, 8>>
            /\ file = HeaderBytes(MAGIC_BYTE, 5, e, f[2], <<0, w - 1>>, <<0, h - 1>>, f[1],
                                  lane_proper_length(w, f[2]) + padding)
                        \o Tiled(tile, n) \o trailer
       \/ \E e \in EncodingBytes, b \in BitDepths, p \in PlaneCounts,
             xr \in SmallXRanges, yr \in SmallYRanges, l \in {0, 65535} :
            file = HeaderBytes(MAGIC_BYTE, 5, e, b, xr, yr, p, l) \o <<194, 1, 192, 1>>
       \/ \E n \in CutLengths :
            file = SubSeq(HeaderBytes(MAGIC_BYTE, 5, 1, 8, <<0, 0>>, <<0, 0>>, 1, 2), 1, n)

NextRead == ReaderNew \/ ReadRgbPixels

SpecRead == InitRead /\ [][NextRead]_vars

---------------------------------------------------------------------------
(* The public functions of writer.rs called in any order, with buffers of  *)
(* the right length and of wrong lengths: WriterRgb::new or                *)
(* WriterPaletted::new, then calls that write a row, then finish or        *)
(* write_palette, which consume the writer.                                *)

\* The calls a driver makes after new
MaxCalls == MaxHeight + 2

\* Sizes header::write accepts, and sizes it rejects
WriterSizes ==
    ((1..MaxWidth) \X (1..MaxHeight)) \cup {<<0, 1>>, <<1, 0>>, <<65535, 1>>}

\* Lengths of the palette given to write_palette
PaletteLengths == {0, 3, 4, 6, 768, 769, 771}

InitWriterCalls ==
    /\ data = <<>> /\ mode = "bulk" /\ fed = 0 /\ result = <<>>
    /\ comp = Compressor_new(<<>>, 1) /\ dec = Decompressor_new(<<>>)
    /\ hin = NoWrite /\ wres = NoWriteResult /\ hres = NoLoadResult
    /\ file = <<>>
    /\ \E paletted \in BOOLEAN, size \in WriterSizes, tile \in Tiles :
         img = [paletted |-> paletted, size |-> size,
                pixels |-> IF size \in (1..MaxWidth) \X (1..MaxHeight)
                           THEN Tiled(tile, IF paletted THEN size[1] * size[2]
                                            ELSE size[1] * size[2] * 3)
                           ELSE <<>>,
                palette |-> <<>>]
    /\ wr = NoWriter /\ rd = NoReader /\ out = NoOutput /\ res = NoResult
    /\ api = NoCall
    /\ pc = "new"

\* A buffer of len bytes for the next row of the image (the last row again
\* once all rows were written), of row_size bytes
RowFor(row_size, len) ==
    Tiled(ImageRow(Min(api.written, img.size[2] - 1), row_size), len)

\* The driver's step after the call `name` that writes a row, given buffers
\* of the lengths lens, returned w
AfterRowCall(name, lens, w) ==
    /\ wr' = w.w
    /\ res' = [ok |-> w.ok, kind |-> w.kind]
    /\ api' = [call |-> name, lens |-> lens, n |-> api.n + 1,
               written |-> api.written + (IF w.ok THEN 1 ELSE 0)]
    /\ pc' = "rows"
    /\ UNCHANGED <<img, rd, out, file, hin, wres, hres, rleVars>>

\* writer.write_row_from_interleaved(&rgb), at any time
CallWriteRowInterleaved ==
    /\ pc = "rows" /\ ~img.paletted /\ api.n < MaxCalls
    /\ \E len \in {3 * img.size[1] - 1, 3 * img.size[1], 3 * img.size[1] + 3} :
         AfterRowCall("write_row_from_interleaved", <<len>>,
                      WriterRgb_write_row_from_interleaved(
                        wr, RowFor(3 * img.size[1], len)))

\* The lengths of r, g and b: the width, but for buffer i (none if i = 0),
\* which is off by d
SeparateLens(i, d) == [k \in 1..3 |-> IF k = i THEN img.size[1] + d ELSE img.size[1]]

\* Buffer k of r, g, b, of len bytes, for the next row
ChannelFor(k, len) ==
    Tiled(Channel(RowFor(3 * img.size[1], 3 * img.size[1]), k - 1, img.size[1]), len)

\* writer.write_row_from_separate(&r, &g, &b), at any time
CallWriteRowSeparate ==
    /\ pc = "rows" /\ ~img.paletted /\ api.n < MaxCalls
    /\ \E i \in 0..3, d \in {-1, 1} :
         AfterRowCall("write_row_from_separate", SeparateLens(i, d),
                      WriterRgb_write_row_from_separate(
                        wr, ChannelFor(1, SeparateLens(i, d)[1]),
                        ChannelFor(2, SeparateLens(i, d)[2]),
                        ChannelFor(3, SeparateLens(i, d)[3])))

\* writer.write_row(&row) of a WriterPaletted, at any time
CallWriteRow ==
    /\ pc = "rows" /\ img.paletted /\ api.n < MaxCalls
    /\ \E len \in {img.size[1] - 1, img.size[1], img.size[1] + 1} :
         AfterRowCall("write_row", <<len>>,
                      WriterPaletted_write_row(wr, RowFor(img.size[1], len)))

\* The driver's step after the call `name` that consumed the writer
\* returned w: the Vec holds the file.
AfterLastCall(name, lens, w) ==
    /\ wr' = w.w
    /\ res' = [ok |-> w.ok, kind |-> w.kind]
    /\ api' = [api EXCEPT !.call = name, !.lens = lens, !.n = @ + 1]
    /\ file' = w.w.compressor.stream
    /\ pc' = "finished"
    /\ UNCHANGED <<img, rd, out, hin, wres, hres, rleVars>>

\* writer.finish() of a WriterRgb, at any time
CallFinish ==
    /\ pc = "rows" /\ ~img.paletted
    /\ AfterLastCall("finish", <<>>, WriterRgb_finish(wr))

\* writer.write_palette(&palette) of a WriterPaletted, at any time
CallWritePalette ==
    /\ pc = "rows" /\ img.paletted
    /\ \E len \in PaletteLengths :
         AfterLastCall("write_palette", <<len>>,
                       WriterPaletted_write_palette(
                         wr, [i \in 1..len |-> (7 * i + 5) % 256]))

NextWriterCalls ==
    \/ WriterNew
    \/ CallWriteRowInterleaved \/ CallWriteRowSeparate \/ CallWriteRow
    \/ CallFinish \/ CallWritePalette

SpecWriterCalls == InitWriterCalls /\ [][NextWriterCalls]_vars

---------------------------------------------------------------------------
(* The Compressor of low_level/rle.rs called in any order: write, pad and  *)
(* flush on a Vec.  data is the bytes given to the compressor so far, by   *)
(* write and by pad; pc is "writing" until the first flush, "flushed" just *)
(* after it and "again" once anything was called after a flush.            *)

MaxCompCalls == 3

CompLaneLengths == {1, 2, 3, 64, 100}

\* The buffers given to write: bytes equal to the initial run_value, other
\* literals, and bytes that need a 2-byte code; runs longer than the 62
\* bytes at which write stops counting
CompBuffers ==
    {Repeat(v, k) : v \in {0, 7, 200}, k \in {1, 2, 63}} \cup {<<7, 7, 0>>}

InitCompressor ==
    /\ data = <<>> /\ mode = "bulk" /\ fed = 0 /\ result = <<>>
    /\ \E l \in CompLaneLengths : comp = Compressor_new(<<>>, l)
    /\ dec = Decompressor_new(<<>>)
    /\ hin = NoWrite /\ wres = NoWriteResult /\ hres = NoLoadResult
    /\ file = <<>>
    /\ img = NoImage /\ wr = NoWriter /\ rd = NoReader /\ out = NoOutput /\ res = NoResult
    /\ api = NoCall
    /\ pc = "writing"

\* The driver's step after the call `name`, which gave the bytes `bytes` to
\* the compressor and left it as c
AfterCompCall(name, bytes, c) ==
    /\ comp' = c
    /\ data' = data \o bytes
    /\ api' = [api EXCEPT !.call = name, !.lens = <<Len(bytes)>>, !.n = @ + 1]
    /\ pc' = IF name = "flush" THEN (IF pc = "writing" THEN "flushed" ELSE "again")
             ELSE (IF pc = "writing" THEN "writing" ELSE "again")
    /\ UNCHANGED <<mode, fed, dec, result, hdrVars, img, wr, rd, out, res>>

\* compressor.write_all(&buffer)
CompWrite ==
    /\ api.n < MaxCompCalls
    /\ \E buffer \in CompBuffers :
         AfterCompCall("write", buffer, Compressor_write(comp, buffer))

\* compressor.pad(): write(&[0]) until the lane is full
CompPad ==
    /\ api.n < MaxCompCalls
    /\ AfterCompCall("pad",
                     Repeat(0, IF comp.lane_position = 0 THEN 0
                               ELSE comp.lane_length - comp.lane_position),
                     Compressor_pad(comp))

\* compressor.flush()
CompFlush ==
    /\ api.n < MaxCompCalls
    /\ AfterCompCall("flush", <<>>, Compressor_flush(comp))

NextCompressor == CompWrite \/ CompPad \/ CompFlush

SpecCompressor == InitCompressor /\ [][NextCompressor]_vars

---------------------------------------------------------------------------
(* The public functions of reader.rs called in any order on a Reader       *)
(* opened on the bytes of a file: the functions that read a row, of the    *)
(* kind of the image or not, with buffers of the right length and of wrong *)
(* lengths, get_palette, and read_palette, which consumes the reader.      *)

CallWidths == {MaxWidth, 9}

\* Bytes after the header: literals, 2-byte codes of 2 bytes, and too few
\* bytes for a row of most images
CallBodies == {Tiled(<<1, 180>>, 30), Tiled(<<194, 192>>, 30), Tiled(<<1>>, 4)}

\* The end of a file of 256 colors: the number of bytes between the header
\* and the trailer (they are 0xC2 and PALETTE_START in turn, runs of two
\* pixels if the file is compressed), and the trailer.
\* With a trailer, 769, 770, 1500 and 2 * 769 bytes follow the header.
PaletteEnds ==
    ({0, 1, 731} \X {PaletteTrailer, BadTrailer})
      \cup {<<769, PaletteTrailer>>, <<0, NoTrailer>>, <<4, NoTrailer>>}

\* The most bytes the successive reads of a stream return, in turn
ChunkPatterns == {<<TEMP_BUFFER_LENGTH>>, <<768>>, <<500>>, <<1, 700>>}

\* The padding of the lanes of an image of width w: 2 bytes, or 1 byte for
\* the wide images (the files of 256 colors below have none)
CallPadding(w) == IF w > MaxWidth THEN 1 ELSE 2

InitReaderCalls ==
    /\ data = <<>> /\ mode = "bulk" /\ fed = 0 /\ result = <<>>
    /\ comp = Compressor_new(<<>>, 1) /\ dec = Decompressor_new(<<>>)
    /\ hin = NoWrite /\ wres = NoWriteResult /\ hres = NoLoadResult
    /\ img = NoImage /\ wr = NoWriter /\ rd = NoReader /\ out = NoOutput /\ res = NoResult
    /\ api = NoCall
    /\ pc = "open"
    /\ \/ \E e \in {0, 1}, f \in SupportedFormats, w \in CallWidths, h \in ReadHeights,
             body \in CallBodies :
            file = HeaderBytes(MAGIC_BYTE, 5, e, f[2], <<0, w - 1>>, <<0, h - 1>>, f[1],
                               lane_proper_length(w, f[2]) + CallPadding(w))
                     \o body
       \/ \E e \in {0, 1}, h \in ReadHeights, end \in PaletteEnds :
            file = HeaderBytes(MAGIC_BYTE, 5, e, 8, <<0, 0>>, <<0, h - 1>>, 1, 1)
                     \o Tiled(<<194, PALETTE_START>>, end[1]) \o end[2]
       \/ \E m \in Magics, v \in VersionBytes, e \in EncodingBytes, l \in {0, 1} :
            file = HeaderBytes(m, v, e, 8, <<0, 0>>, <<0, 0>>, 1, l) \o <<1, 1>>
       \/ \E b \in BitDepths, p \in PlaneCounts, xr \in SmallXRanges, yr \in SmallYRanges :
            file = HeaderBytes(MAGIC_BYTE, 5, 1, b, xr, yr, p, 65535) \o <<1, 1>>

\* Whether one more call may read a row: the driver reads at most one row
\* more than the image has.
MayReadRow ==
    rd.num_lanes_read < (Reader_height(rd) + 1) * rd.header.number_of_color_planes

\* The driver's step after the call `name` that reads a row, given buffers
\* of the lengths lens, returned p and the buffers hold pixels
AfterReaderCall(name, lens, p, pixels) ==
    /\ rd' = p.rd
    /\ res' = [ok |-> p.ok, kind |-> p.kind]
    /\ out' = [out EXCEPT !.pixels = pixels]
    /\ api' = [api EXCEPT !.call = name, !.lens = lens]
    /\ pc' = "opened"
    /\ UNCHANGED <<img, wr, file, hin, wres, hres, rleVars>>

\* next_row_paletted returned p
AfterNextRowPaletted(len, p) == AfterReaderCall("next_row_paletted", <<len>>, p, p.buffer)

\* reader.next_row_paletted(&mut row), on an image of any kind; the bytes of
\* row are 0xFF before the call, left from an earlier use of the buffer
CallNextRowPaletted ==
    /\ pc = "opened" /\ MayReadRow
    /\ \E len \in {Reader_width(rd), Reader_width(rd) + 1} :
         AfterNextRowPaletted(len, next_row_paletted(rd, Repeat(255, len)))

\* next_row_rgb returned p
AfterNextRowRgb(len, p) == AfterReaderCall("next_row_rgb", <<len>>, p, p.buffer)

\* reader.next_row_rgb(&mut rgb), on an image of any kind
CallNextRowRgb ==
    /\ pc = "opened" /\ MayReadRow
    /\ \E len \in {Reader_width(rd) * 3, Reader_width(rd) * 3 + 3} :
         AfterNextRowRgb(len, next_row_rgb(rd, Repeat(0, len)))

\* next_row_rgb_separate returned p
AfterNextRowRgbSeparate(lens, p) ==
    AfterReaderCall("next_row_rgb_separate", lens, p,
                    p.buffer[1] \o p.buffer[2] \o p.buffer[3])

\* reader.next_row_rgb_separate(&mut r, &mut g, &mut b), on an image of any
\* kind; b is of the right length or one byte longer
CallNextRowRgbSeparate ==
    /\ pc = "opened" /\ MayReadRow
    /\ \E d \in {0, 1} :
         AfterNextRowRgbSeparate(
           <<Reader_width(rd), Reader_width(rd), Reader_width(rd) + d>>,
           next_row_rgb_separate(rd, Repeat(0, Reader_width(rd)),
                                 Repeat(0, Reader_width(rd)),
                                 Repeat(0, Reader_width(rd) + d)))

\* The driver's step after the call `name` that reads the palette returned p
AfterPaletteCall(name, lens, p, next) ==
    /\ rd' = p.rd
    /\ res' = [ok |-> p.ok, kind |-> p.kind]
    /\ out' = [out EXCEPT !.palette = p.buffer, !.colors = p.n]
    /\ api' = [api EXCEPT !.call = name, !.lens = lens]
    /\ pc' = next
    /\ UNCHANGED <<img, wr, file, hin, wres, hres, rleVars>>

\* reader.get_palette(&mut palette), palette of 256 * 3 bytes, at any time
CallGetPalette ==
    /\ pc = "opened"
    /\ AfterPaletteCall("get_palette", <<PALETTE_LENGTH>>,
                        get_palette(rd, Repeat(0, PALETTE_LENGTH)), "opened")

\* reader.read_palette(&mut palette), palette of 256 * 3 bytes, at any time,
\* on a stream that returns the bytes in reads of any lengths; rd is left as
\* it was when the call consumed it.
CallReadPalette ==
    /\ pc = "opened"
    /\ \E chunks \in ChunkPatterns :
         /\ Reader_palette_length(rd) # <<256>> => chunks = <<TEMP_BUFFER_LENGTH>>
         /\ AfterPaletteCall("read_palette", chunks,
                              [read_palette_chunked(rd, Repeat(0, PALETTE_LENGTH), chunks)
                                 EXCEPT !.rd = rd],
                              "closed")

NextReaderCalls ==
    \/ ReaderNew
    \/ CallNextRowPaletted \/ CallNextRowRgb \/ CallNextRowRgbSeparate
    \/ CallGetPalette \/ CallReadPalette

SpecReaderCalls == InitReaderCalls /\ [][NextReaderCalls]_vars

---------------------------------------------------------------------------
(* A Decompressor on arbitrary bytes, as in fuzz_targets/rle.rs: read is   *)
(* called with buffers of any lengths, also after it returned an error or  *)
(* the end of the stream.                                                  *)

MaxStreamLen == 4

\* A literal, 2-byte codes of 0, 2 and 8 bytes (or the values 0xC0, 0xC2,
\* 0xC8 of a code)
StreamBytes == {7, 192, 194, 200}
DecStreams == SeqsUpTo(StreamBytes, MaxStreamLen)
DecReadSizes == {0, 1, 3, 5}

InitDecompressor ==
    /\ data = <<>> /\ mode = "bulk" /\ fed = 0 /\ result = <<>>
    /\ comp = Compressor_new(<<>>, 1)
    /\ \E stream \in DecStreams : dec = Decompressor_new(stream)
    /\ hin = NoWrite /\ wres = NoWriteResult /\ hres = NoLoadResult
    /\ file = <<>>
    /\ img = NoImage /\ wr = NoWriter /\ rd = NoReader /\ out = NoOutput /\ res = NoResult
    /\ api = NoCall
    /\ pc = "reading"

\* The driver's step after read(&mut buffer), buffer of n bytes, returned r:
\* an Ok(read) gives the first `read` bytes of the buffer to the caller, an
\* Err gives nothing.
AfterDecRead(n, r) ==
    /\ dec' = r.d
    /\ res' = [ok |-> r.ok, kind |-> IF r.ok THEN "" ELSE UnexpectedEof]
    /\ result' = IF r.ok THEN result \o r.data ELSE result
    /\ api' = [api EXCEPT !.call = "read", !.lens = <<n>>,
                          !.n = IF r.ok THEN Len(r.data) ELSE 0]
    /\ pc' = IF r.done THEN "reading" ELSE "hang"
    /\ UNCHANGED <<data, mode, fed, comp, hdrVars, img, wr, rd, out>>

\* decompressor.read(&mut buffer)
DecRead ==
    /\ pc = "reading"
    /\ \E n \in DecReadSizes : AfterDecRead(n, Decompressor_read(dec, n))

NextDecompressor == DecRead

SpecDecompressor == InitDecompressor /\ [][NextDecompressor]_vars

---------------------------------------------------------------------------
(* The calls of writer.rs in any order, and a writer that goes out of      *)
(* scope before finish or write_palette was called.                        *)

\* drop(writer), at any time after new
CallDrop ==
    /\ pc = "rows"
    /\ wr' = IF img.paletted THEN WriterPaletted_drop(wr) ELSE WriterRgb_drop(wr)
    /\ file' = wr'.compressor.stream
    /\ api' = [api EXCEPT !.call = "drop", !.lens = <<>>]
    /\ pc' = "dropped"
    /\ UNCHANGED <<img, rd, out, res, hin, wres, hres, rleVars>>

NextWriterDrop == NextWriterCalls \/ CallDrop

SpecWriterDrop == InitWriterCalls /\ [][NextWriterDrop]_vars

---------------------------------------------------------------------------
(* The calls of writer.rs and of reader.rs together: a driver has a writer *)
(* or a Reader and calls its functions in any order.                       *)

InitCalls == InitWriterCalls \/ InitReaderCalls

NextCalls == NextWriterCalls \/ NextReaderCalls

SpecCalls == InitCalls /\ [][NextCalls]_vars

---------------------------------------------------------------------------
\* C1: RLE round trip.  Whatever the data (the empty sequence included), the
\* lane length >= 1 and the way the data is written (bulk or byte by byte),
\* once the compressor was flushed once, no read of the decompressor fails
\* and at the end of the stream the bytes read are exactly data.
C1_RoundTrip ==
    /\ pc \notin {"error", "hang"}
    /\ pc \in {"read", "done"} =>
         /\ Len(result) <= Len(data)
         /\ result = SubSeq(data, 1, Len(result))
    /\ pc = "done" => result = data

\* A byte-by-byte round trip finished on data holding a run longer than 62
\* bytes of a value >= 0xC0.
C1_Witness ==
    /\ pc = "done" /\ mode = "one_by_one"
    /\ Len(data) >= 64 /\ data[1] = 192 /\ data[63] = 192
    /\ comp.lane_length = 64
    /\ result = data

---------------------------------------------------------------------------
\* All the rows of the image were written and the call that ends the file
\* (finish, write_palette) was made.
WrittenAll ==
    /\ pc \in {"open", "opened", "done"}
    /\ wr.width = img.size[1]
    /\ wr.num_rows_left = 0

\* C2: RGB pixel round trip.  Once all the rows of an RGB image were written
\* by WriterRgb (from interleaved or separate buffers) and finish was called,
\* finish returned Ok, a Reader opens on the bytes, its dimensions are the
\* size written, it is not paletted, read_rgb_pixels returns Ok with exactly
\* the pixels written, and each next_row_rgb_separate returns Ok with the
\* next row written, up to the last.
C2_RgbRoundTrip ==
    (~img.paletted /\ WrittenAll) =>
        /\ res.ok
        /\ pc \in {"opened", "done"} =>
             /\ rd # NoReader
             /\ Reader_dimensions(rd) = img.size
             /\ ~Reader_is_paletted(rd)
             /\ out.pixels = SubSeq(img.pixels, 1, out.rows * 3 * img.size[1])

\* All the rows of an RGB image of odd width (padded lanes), two rows and
\* pixels of value 0xC0 were read back.
C2_Witness ==
    /\ ~img.paletted /\ WrittenAll /\ pc = "done"
    /\ img.size = <<63, 2>>
    /\ img.pixels[1] = 192
    /\ out.rows = 2
    /\ out.pixels = img.pixels

\* C3: paletted pixel round trip.  Once all the rows of a paletted image were
\* written by WriterPaletted::write_row and write_palette was called with a
\* palette of 3k bytes, write_palette returned Ok, a Reader opens on the
\* bytes, its palette_length is Some(256), each next_row_paletted returns Ok
\* with the next row written, and the read_palette that follows returns 256
\* with the palette written in the first 3k bytes of the buffer.
C3_PalettedRoundTrip ==
    (img.paletted /\ WrittenAll) =>
        /\ res.ok
        /\ pc \in {"opened", "done"} =>
             /\ rd # NoReader
             /\ Reader_palette_length(rd) = <<256>>
        /\ (pc = "opened" \/ (pc = "done" /\ out.palette # <<>>)) =>
             out.pixels = SubSeq(img.pixels, 1, out.rows * img.size[1])
        /\ (pc = "done" /\ out.palette # <<>>) =>
             /\ out.colors = 256
             /\ SubSeq(out.palette, 1, Len(img.palette)) = img.palette

\* The rows and then the palette of a paletted image of odd width, two rows
\* and a palette of 2 colors were read back.
C3_Witness ==
    /\ img.paletted /\ WrittenAll /\ pc = "done"
    /\ img.size = <<63, 2>>
    /\ Len(img.palette) = 6
    /\ out.rows = 2 /\ Len(out.pixels) = 126
    /\ out.colors = 256
    /\ SubSeq(out.palette, 1, 6) = img.palette

---------------------------------------------------------------------------
\* C4: no panic on malformed input.  Whatever the bytes of the file,
\* Header::load (in Reader::from_mem) returns Ok or Err, and if the Reader
\* opens, one read_rgb_pixels with a buffer of width * height * 3 bytes
\* returns Ok or Err: no call ends in a panic (overflow of an integer,
\* failed assert, unreachable!, index outside the row, the output buffer or
\* the palette), for the 8 formats, compressed or not.
C4_NoPanic == res.kind # Panic

\* read_rgb_pixels returned Ok on a planar image of 3 planes whose width is
\* not a multiple of 8, and returned Err on an image of 256 colors without
\* its palette: here the first.
C4_Witness ==
    /\ pc = "done" /\ rd # NoReader /\ img = NoImage
    /\ rd.header.number_of_color_planes = 3 /\ rd.header.bit_depth = 1
    /\ rd.header.size = <<3, 2>>
    /\ rd.num_lanes_read = 6
    /\ res.ok

\* C5: termination on malformed input.  Whatever the bytes of the file,
\* Reader::from_mem (Header::load) and read_rgb_pixels return: no read of
\* the decompressor is still in its loop after as many iterations as the
\* buffer has bytes to fill and the stream bytes to consume, codes of 0
\* bytes included.
C5_Terminates == res.kind # Hang

\* read_rgb_pixels returned on a compressed file whose bytes after the
\* header are codes of 0 bytes (0xC0, then the value 1) up to the end.
C5_Witness ==
    /\ pc = "done" /\ rd # NoReader /\ img = NoImage
    /\ rd.header.is_compressed
    /\ Len(file) = HEADER_LENGTH + 30
    /\ file[HEADER_LENGTH + 1] = 192 /\ file[HEADER_LENGTH + 2] = 1
    /\ rd.pixel_reader.d.pos = Len(file)
    /\ res.kind = UnexpectedEof

---------------------------------------------------------------------------
\* The fields of the dimensions as they stand in the file (it holds at
\* least the 12 bytes up to y_end).
FileXStart == ReadU16(file, 5)
FileYStart == ReadU16(file, 7)
FileXEnd   == ReadU16(file, 9)
FileYEnd   == ReadU16(file, 11)

\* The first three bytes of the file pass the checks of Header::load.
FilePrefixValid ==
    /\ Len(file) >= 12
    /\ file[1] = 10 /\ file[2] \in {0, 2, 3, 4, 5} /\ file[3] \in {0, 1}

\* C6: Header validity.  Every header Header::load returns as Ok has a width
\* and a height of at least 1, one of the 8 supported (planes, bit depth)
\* pairs, and a lane length of at least ceil(width * bit_depth / 8), so that
\* lane_padding() = lane_length - lane_proper_length() does not underflow.
C6_HeaderValid ==
    (pc = "done" /\ hres.ok) =>
        LET h == hres.header
        IN  /\ h.size[1] >= 1 /\ h.size[2] >= 1
            /\ \/ h.number_of_color_planes = 3 /\ h.bit_depth = 8
               \/ h.number_of_color_planes = 1 /\ h.bit_depth \in {1, 2, 4, 8}
               \/ h.number_of_color_planes \in {2, 3, 4} /\ h.bit_depth = 1
            /\ 8 * h.lane_length >= h.size[1] * h.bit_depth
            /\ 8 * Header_lane_proper_length(h) >= h.size[1] * h.bit_depth
            /\ ~Header_lane_padding(h).overflow
            /\ Header_lane_padding(h).v = h.lane_length - Header_lane_proper_length(h)

\* An accepted header whose lane length is exactly the least one allowed:
\* width 9 at 1 bit per pixel in 2 bytes.
C6_Witness ==
    /\ pc = "done" /\ hres.ok
    /\ hres.header.size[1] = 9 /\ hres.header.bit_depth = 1
    /\ hres.header.lane_length = 2

\* C7: Header round trip.  For every paletted flag, every size with
\* 1 <= width <= 0xFFFE and 1 <= height <= 0xFFFF and every dpi, header::write
\* succeeds and Header::load of the bytes written succeeds and returns the
\* same size and dpi, start (0, 0), version 5, is_compressed, bit depth 8,
\* lane length = width rounded up to even, and palette_length() = Some(256)
\* if paletted and None otherwise.
C7_HeaderRoundTrip ==
    (pc = "done" /\ hin.size[1] \in 1..65534 /\ hin.size[2] \in 1..65535) =>
        /\ wres.ok
        /\ Len(file) = 128
        /\ hres.ok
        /\ LET h == hres.header
           IN  /\ h.size = hin.size
               /\ h.dpi = hin.dpi
               /\ h.start = <<0, 0>>
               /\ h.version = 5
               /\ h.is_compressed
               /\ h.bit_depth = 8
               /\ h.lane_length = 2 * ((hin.size[1] + 1) \div 2)
               /\ Header_palette_length(h) = (IF hin.paletted THEN <<256>> ELSE <<>>)

\* The round trip of the largest size that can be written, paletted.
C7_Witness ==
    /\ pc = "done" /\ wres.ok /\ hres.ok
    /\ hin.paletted /\ hin.size = <<65534, 65535>> /\ hin.dpi = <<65535, 1>>
    /\ hres.header.size = <<65534, 65535>>

\* C8: header::write returns an InvalidInput error when the width is 0xFFFF,
\* the width is 0 or the height is 0, and then the stream holds no byte more
\* than before the call.
C8_WriteRejects ==
    (pc = "done" /\ wres.kind # "none"
       /\ (hin.size[1] = 65535 \/ hin.size[1] = 0 \/ hin.size[2] = 0)) =>
        /\ ~wres.ok
        /\ wres.kind = InvalidInput
        /\ file = <<>>

\* A write of width 0xFFFF was rejected.
C8_Witness ==
    /\ pc = "done" /\ wres.kind = InvalidInput
    /\ hin.size = <<65535, 1>>

\* C9: Header::load returns an error whenever x_end < x_start,
\* y_end < y_start, x_end - x_start = 0xFFFF or y_end - y_start = 0xFFFF
\* (the invalid dimensions error, once magic, version and encoding were
\* accepted), and it never panics on an overflow of its 16-bit arithmetic;
\* when it returns a header, the width is exactly x_end - x_start + 1 and the
\* height exactly y_end - y_start + 1, both in 1..0xFFFF.
C9_Dimensions ==
    pc = "done" =>
        /\ hres.kind # Panic
        /\ (FilePrefixValid
              /\ (FileXEnd < FileXStart \/ FileYEnd < FileYStart
                    \/ FileXEnd - FileXStart = 65535 \/ FileYEnd - FileYStart = 65535))
             => (~hres.ok /\ hres.kind = InvalidData /\ hres.msg = "PCX: invalid dimensions")
        /\ hres.ok =>
             /\ hres.header.size[1] = FileXEnd - FileXStart + 1
             /\ hres.header.size[2] = FileYEnd - FileYStart + 1
             /\ hres.header.size[1] \in 1..65535
             /\ hres.header.size[2] \in 1..65535

\* The case of fuzzer_test_case of header.rs, x_start = 0 with x_end = 0xFFFF,
\* was rejected, and so was a file with y_end < y_start.
C9_Witness ==
    /\ pc = "done" /\ FilePrefixValid
    /\ FileXStart = 0 /\ FileXEnd = 65535
    /\ FileYEnd < FileYStart
    /\ hres.msg = "PCX: invalid dimensions"

\* The palette length documented for each (planes, bit depth) pair.
PaletteLengthTable(planes, bit_depth) ==
    CASE planes = 3 /\ bit_depth = 8 -> <<>>
      [] planes = 1 /\ bit_depth = 1 -> <<2>>
      [] planes = 1 /\ bit_depth = 2 -> <<4>>
      [] planes = 1 /\ bit_depth = 4 -> <<16>>
      [] planes = 1 /\ bit_depth = 8 -> <<256>>
      [] planes = 2 /\ bit_depth = 1 -> <<4>>
      [] planes = 3 /\ bit_depth = 1 -> <<8>>
      [] planes = 4 /\ bit_depth = 1 -> <<16>>
      [] OTHER -> <<0>>

\* C10: for every header Header::load accepts, palette_length() is None for
\* (planes, bit depth) = (3, 8) and otherwise Some(2^(planes * bit_depth)) as
\* in the table; the value is one of None, 2, 4, 8, 16, 256, and
\* is_paletted() is true exactly when it is not None.
C10_PaletteLength ==
    (pc = "done" /\ hres.ok) =>
        LET h == hres.header
        IN  /\ Header_palette_length(h)
                 = PaletteLengthTable(h.number_of_color_planes, h.bit_depth)
            /\ Header_palette_length(h) \in {<<>>, <<2>>, <<4>>, <<8>>, <<16>>, <<256>>}
            /\ is_paletted(h) <=> ~(h.number_of_color_planes = 3 /\ h.bit_depth = 8)

\* An accepted header of 4 planes of 1 bit: 16 colours.
C10_Witness ==
    /\ pc = "done" /\ hres.ok
    /\ hres.header.number_of_color_planes = 4 /\ hres.header.bit_depth = 1
    /\ Header_palette_length(hres.header) = <<16>>

---------------------------------------------------------------------------
\* C11: writer row-count bound.  For a WriterRgb or a WriterPaletted of
\* height h, whatever the calls, the number of row writes that returned Ok
\* never exceeds h, num_rows_left is h minus that number and never leaves
\* the u16 range, and every call that writes a row made after h row writes
\* returned Ok returns an InvalidInput error and writes no row.
C11_RowCountBound ==
    /\ [](pc \in {"rows", "finished"} =>
            /\ api.written <= img.size[2]
            /\ wr.num_rows_left \in 0..U16_MAX
            /\ wr.num_rows_left = img.size[2] - api.written)
    /\ [][(pc = "rows" /\ pc' = "rows" /\ api.written = img.size[2]) =>
            /\ ~res'.ok /\ res'.kind = InvalidInput
            /\ api'.written = api.written
            /\ wr'.num_rows_left = wr.num_rows_left]_vars

\* All the rows of a paletted image were written, and one more write_row
\* with a buffer of the right length was refused.
C11_Witness ==
    /\ pc = "rows" /\ img.paletted /\ img.size[2] = MaxHeight
    /\ api.written = img.size[2] /\ api.call = "write_row"
    /\ api.lens = <<img.size[1]>>
    /\ ~res.ok /\ res.kind = InvalidInput

---------------------------------------------------------------------------
\* C12: finalisation only after all rows.  WriterRgb::finish and
\* WriterPaletted::write_palette return an InvalidInput error if fewer row
\* writes than the height returned Ok; with exactly height rows written,
\* finish returns Ok, and so does write_palette for a palette of at most 768
\* bytes whose length is divisible by 3 (the Vec it writes to does not fail).
C12_FinishAfterAllRows ==
    pc = "finished" =>
        IF api.written < img.size[2]
        THEN ~res.ok /\ res.kind = InvalidInput
        ELSE (api.call = "finish"
                \/ (api.lens[1] <= PALETTE_LENGTH /\ api.lens[1] % 3 = 0)) => res.ok

\* finish was called one row before the end and refused.
C12_Witness ==
    /\ pc = "finished" /\ api.call = "finish"
    /\ img.size[2] = MaxHeight /\ api.written = MaxHeight - 1
    /\ ~res.ok /\ res.kind = InvalidInput

---------------------------------------------------------------------------
\* The codes of a stream s read one after the other: i is the index of the
\* next code, k the number of bytes the codes before it stand for, ok
\* whether every 2-byte code so far (a first byte of 0xC0 or more, count =
\* first byte & 0x3F) is whole and has a count in 1..63, and lanes whether
\* the bytes of every code so far are in one lane of lane_length bytes.
CodesStart == [i |-> 1, k |-> 0, ok |-> TRUE, lanes |-> TRUE]

\* The next code of s
CodesStep(s, lane_length, st) ==
    IF BitAndC0(s[st.i]) # 192
    THEN [st EXCEPT !.i = @ + 1, !.k = @ + 1]
    ELSE [i |-> st.i + 2,
          k |-> st.k + BitAnd3F(s[st.i]),
          ok |-> st.ok /\ st.i + 1 <= Len(s) /\ BitAnd3F(s[st.i]) \in 1..63,
          lanes |-> st.lanes
                      /\ (BitAnd3F(s[st.i]) > 0 =>
                            st.k \div lane_length
                              = (st.k + BitAnd3F(s[st.i]) - 1) \div lane_length)]

\* At most n codes of s from st on (in two halves, the first evaluated
\* before the second starts)
RECURSIVE CodesSpan(_, _, _, _)
CodesSpan(s, lane_length, st, n) ==
    IF st.i > Len(s) \/ n = 0 THEN st
    ELSE IF n = 1 THEN CodesStep(s, lane_length, st)
    ELSE LET half == CodesSpan(s, lane_length, st, n \div 2)
         IN  IF half.i > Len(s) THEN half
             ELSE CodesSpan(s, lane_length, half, n - (n \div 2))

\* All the codes of s
Codes(s, lane_length) == CodesSpan(s, lane_length, CodesStart, Len(s))

\* C13: run-length bound.  After any sequence of write, pad and flush calls
\* of a Compressor, every 2-byte code in the sink has a count between 1 and
\* 63: a code of count 0 is never emitted.
C13_RunCountBound == Codes(comp.stream, comp.lane_length).ok

\* A run of 62 bytes, the longest write counts, was emitted as the code
\* 0xFE, and the sink was flushed.
C13_Witness ==
    /\ pc = "flushed" /\ Len(comp.stream) >= 2
    /\ comp.stream[1] = 254 /\ comp.stream[2] = 0
    /\ Len(data) >= 63

---------------------------------------------------------------------------
\* C14: no emitted run crosses a lane boundary.  For every lane_length >= 1
\* and every input, each code the Compressor emits, a literal or a 2-byte
\* code, stands for bytes given to the compressor (by write and by pad) that
\* all belong to one lane, byte k (from 0) belonging to lane
\* k \div lane_length.  The codes are those emitted up to and by the first
\* flush, which stand for the bytes of data in order.
C14_NoRunCrossesLane ==
    pc \in {"writing", "flushed"} => Codes(comp.stream, comp.lane_length).lanes

---------------------------------------------------------------------------
\* The file has no 256-color palette: it is shorter than 769 bytes, or the
\* byte 769 bytes before its end is not PALETTE_START.
MissingPalette ==
    Len(file) < TEMP_BUFFER_LENGTH \/ file[Len(file) - PALETTE_LENGTH] # PALETTE_START

\* The last call read a row with a function of the other kind of image.
WrongKindOfRow ==
    \/ api.call = "next_row_paletted" /\ ~Reader_is_paletted(rd)
    \/ api.call \in {"next_row_rgb", "next_row_rgb_separate"} /\ Reader_is_paletted(rd)

\* The last call read a row of an RGB image or of an image of 256 colors,
\* with a function of that kind, into a buffer of a wrong length.
WrongSizeOfRow ==
    \/ api.call = "next_row_paletted" /\ Reader_palette_length(rd) = <<256>>
         /\ api.lens # <<Reader_width(rd)>>
    \/ api.call = "next_row_rgb" /\ ~Reader_is_paletted(rd)
         /\ api.lens # <<Reader_width(rd) * 3>>
    \/ api.call = "next_row_rgb_separate" /\ ~Reader_is_paletted(rd)
         /\ api.lens # <<Reader_width(rd), Reader_width(rd), Reader_width(rd)>>

\* C15: error kinds are never confused.  Every error returned for a format
\* violation has kind InvalidData: the errors of Reader::new on a file that
\* holds a whole header (bad magic, unknown version or encoding, unsupported
\* format, invalid dimensions, lane length too small), and the errors of
\* get_palette and read_palette on a file without the palette of its 256
\* colors.  Every error returned for a misuse has kind InvalidInput: a row
\* read with a function of the other kind of image or into a buffer of a
\* wrong length (a call that does not get as far as the buffer reports the
\* end of the file or panics instead), and every error of a writer (size that cannot be written,
\* buffer of a wrong length, too many or too few rows, bad palette length).
C15_ErrorKinds ==
    /\ (img = NoImage /\ pc = "done" /\ Len(file) >= HEADER_LENGTH) =>
          res.kind = InvalidData
    /\ (api.call = "get_palette" /\ Reader_palette_length(rd) = <<256>> /\ MissingPalette) =>
          ~res.ok /\ res.kind = InvalidData
    /\ (api.call = "read_palette" /\ Reader_palette_length(rd) = <<256>> /\ ~res.ok) =>
          res.kind = InvalidData
    /\ (pc = "opened" /\ WrongKindOfRow) => ~res.ok /\ res.kind = InvalidInput
    /\ (pc = "opened" /\ WrongSizeOfRow) =>
          ~res.ok /\ res.kind \in {InvalidInput, UnexpectedEof, Panic}
    /\ (pc = "opened" /\ api.call = "next_row_paletted") => res.kind # InvalidData
    /\ (img # NoImage /\ pc \in {"done", "rows", "finished"} /\ ~res.ok) =>
          res.kind = InvalidInput

---------------------------------------------------------------------------
\* C16: next_row_paletted on an RGB image, and next_row_rgb and
\* next_row_rgb_separate on a paletted image, return an InvalidInput error,
\* consume no byte of the pixel stream and leave num_lanes_read and the
\* pending run of the decompressor as they were.
C16_WrongKindOfRowCall ==
    [][(/\ pc = "opened" /\ pc' = "opened"
        /\ \/ api'.call = "next_row_paletted" /\ ~Reader_is_paletted(rd)
           \/ api'.call \in {"next_row_rgb", "next_row_rgb_separate"}
                /\ Reader_is_paletted(rd))
       => /\ ~res'.ok /\ res'.kind = InvalidInput
          /\ rd'.pixel_reader.d.pos = rd.pixel_reader.d.pos
          /\ rd'.pixel_reader.d.run_count = rd.pixel_reader.d.run_count
          /\ rd'.pixel_reader.d.run_value = rd.pixel_reader.d.run_value
          /\ rd'.num_lanes_read = rd.num_lanes_read
          /\ rd' = rd]_vars

\* next_row_rgb_separate was refused on a paletted image of which rows were
\* read and of which the decompressor holds a pending run.
C16_Witness ==
    /\ pc = "opened" /\ api.call = "next_row_rgb_separate"
    /\ Reader_is_paletted(rd)
    /\ rd.num_lanes_read > 0 /\ rd.pixel_reader.d.run_count > 0
    /\ ~res.ok /\ res.kind = InvalidInput

---------------------------------------------------------------------------
\* The rows y, y + 1, ... of the image written to the WriterRgb w, all of
\* them with write_row_from_separate or all of them with
\* write_row_from_interleaved
RECURSIVE WriteRowsFrom(_, _, _)
WriteRowsFrom(separate, w, y) ==
    IF y >= img.size[2] THEN w
    ELSE LET row == ImageRow(y, 3 * img.size[1])
         IN  WriteRowsFrom(
               separate,
               IF separate
               THEN WriterRgb_write_row_from_separate(
                      w, Channel(row, 0, img.size[1]), Channel(row, 1, img.size[1]),
                      Channel(row, 2, img.size[1])).w
               ELSE WriterRgb_write_row_from_interleaved(w, row).w,
               y + 1)

\* The file of the image written that way
FileWrittenWith(separate) ==
    WriterRgb_finish(
      WriteRowsFrom(separate, WriterRgb_new(<<>>, img.size, ImageDpi).w, 0)
    ).w.compressor.stream

\* C17: the two functions that write a row of an RGB image are equivalent.
\* In every state of a WriterRgb, reached by rows written with either
\* function, write_row_from_interleaved(rgb) and write_row_from_separate of
\* the three channels of rgb return the same result and leave the same
\* writer (compressor, sink and rows left), and finish gives the same file
\* after either; the file of an image written is the file of all its rows
\* written with write_row_from_separate and the file of all its rows
\* written with write_row_from_interleaved.
C17_RgbWritesEquivalent ==
    /\ (pc = "rows" /\ ~img.paletted /\ wr.num_rows_left > 0) =>
         LET row == ImageRow(RowsWritten, 3 * img.size[1])
             a   == WriterRgb_write_row_from_interleaved(wr, row)
             b   == WriterRgb_write_row_from_separate(
                      wr, Channel(row, 0, img.size[1]), Channel(row, 1, img.size[1]),
                      Channel(row, 2, img.size[1]))
         IN  /\ a.ok /\ a = b
             /\ WriterRgb_finish(a.w) = WriterRgb_finish(b.w)
    /\ (pc = "open" /\ ~img.paletted) =>
         /\ file = FileWrittenWith(TRUE)
         /\ file = FileWrittenWith(FALSE)

\* An RGB image of odd width, so that every lane is padded, and of rows with
\* more than one run was written and finished.
C17_Witness ==
    /\ pc = "open" /\ ~img.paletted /\ res.ok
    /\ img.size[1] % 2 = 1 /\ img.size[1] > 1 /\ img.size[2] > 1
    /\ \E i \in 1..(Len(img.pixels) - 1) : img.pixels[i] # img.pixels[i + 1]

---------------------------------------------------------------------------
\* C18: get_palette has no side effect on decoding.  Whether it returns the
\* palette or an error, the position of the stream, the pending run of the
\* decompressor and num_lanes_read are after the call what they were before
\* it, the rows read afterwards are the rows that would have been read
\* without the call, and a second get_palette returns what the first did.
C18_GetPaletteNoSideEffect ==
    /\ [][(pc = "opened" /\ pc' = "opened" /\ api'.call = "get_palette")
          => /\ rd'.pixel_reader.d.pos = rd.pixel_reader.d.pos
             /\ rd'.pixel_reader.d.run_count = rd.pixel_reader.d.run_count
             /\ rd'.pixel_reader.d.run_value = rd.pixel_reader.d.run_value
             /\ rd'.num_lanes_read = rd.num_lanes_read
             /\ rd' = rd
             /\ next_row_paletted(rd', Repeat(0, Reader_width(rd)))
                  = next_row_paletted(rd, Repeat(0, Reader_width(rd)))
             /\ next_row_rgb(rd', Repeat(0, Reader_width(rd) * 3))
                  = next_row_rgb(rd, Repeat(0, Reader_width(rd) * 3))]_vars
    /\ [](pc = "opened" /\ api.call = "get_palette"
          => LET again == get_palette(rd, Repeat(0, PALETTE_LENGTH))
             IN  /\ again.ok = res.ok /\ again.kind = res.kind
                 /\ again.n = out.colors /\ again.buffer = out.palette
                 /\ again.rd = rd)

\* get_palette found no marker 769 bytes before the end of a file of 256
\* colors of which a row was read and the decompressor holds a pending run.
C18_Witness ==
    /\ pc = "opened" /\ api.call = "get_palette"
    /\ Reader_palette_length(rd) = <<256>>
    /\ Len(file) >= TEMP_BUFFER_LENGTH
    /\ rd.num_lanes_read > 0 /\ rd.pixel_reader.d.run_count > 0
    /\ rd.pixel_reader.d.pos > HEADER_LENGTH
    /\ ~res.ok /\ res.kind = InvalidData

---------------------------------------------------------------------------
\* The bytes of the stream that a Reader has not read
Unread(r) == Len(r.pixel_reader.d.stream) - r.pixel_reader.d.pos

\* C19: read_palette on an image of 256 colors with N unread bytes left in
\* the stream, which the stream returns in reads of any lengths.  If N >= 769
\* and the byte 769 bytes before the end is PALETTE_START, it returns 256 and
\* buffer[0..768] holds the last 768 bytes of the stream in their order;
\* otherwise (another byte there, or N < 769, N = 0 included) it returns an
\* InvalidData error.
C19_ReadPaletteFullConsume ==
    (pc = "closed" /\ api.call = "read_palette" /\ Reader_palette_length(rd) = <<256>>) =>
        IF Unread(rd) >= TEMP_BUFFER_LENGTH /\ file[Len(file) - PALETTE_LENGTH] = PALETTE_START
        THEN /\ res.ok /\ out.colors = 256
             /\ SubSeq(out.palette, 1, PALETTE_LENGTH)
                  = SubSeq(file, Len(file) - PALETTE_LENGTH + 1, Len(file))
        ELSE ~res.ok /\ res.kind = InvalidData

\* read_palette returned the palette of a file of 1500 bytes after the
\* header, read in turns of at most 1 and at most 700 bytes.
C19_Witness ==
    /\ pc = "closed" /\ api.call = "read_palette" /\ api.lens = <<1, 700>>
    /\ Reader_palette_length(rd) = <<256>>
    /\ Unread(rd) = 1500
    /\ res.ok /\ out.colors = 256
    /\ out.palette = SubSeq(PaletteTrailer, 2, TEMP_BUFFER_LENGTH)

---------------------------------------------------------------------------
\* The kinds of error a call on a row can return
RowErrorKinds == {InvalidData, InvalidInput, UnexpectedEof, "Other"}

\* C20: the end of the stream is tolerated in the rows of a paletted image
\* only.  In read_rgb_pixels an UnexpectedEof of next_row_paletted is taken
\* as Ok (the loop goes on with the colors of the row and the rows left,
\* and the call returns Ok); every other error of a paletted row, every
\* error of get_palette and every error of an RGB row (UnexpectedEof
\* included) is returned to the caller, and so is every error of
\* Header::load.
C20_EofTolerance ==
    /\ (pc # "open" /\ ~Header_load(file).ok) =>
          pc = "done" /\ ~res.ok /\ res.kind = Header_load(file).kind
    /\ (pc = "done" /\ Header_load(file).ok) =>
          LET r0   == Reader_new(file).rd
              rgb0 == Repeat(0, Reader_width(r0) * Reader_height(r0) * 3)
          IN  IF Reader_is_paletted(r0)
              THEN LET pal == get_palette(r0, Repeat(0, PALETTE_LENGTH))
                       row == next_row_paletted(pal.rd, Repeat(0, Reader_width(r0)))
                   IN  /\ ~pal.ok => ~res.ok /\ res.kind = pal.kind /\ rd.num_lanes_read = 0
                       /\ pal.ok => res.ok
                       /\ pal.ok =>
                            \A kind \in RowErrorKinds :
                              LET a == read_rgb_pixels_paletted_row(
                                         rgb0, pal.buffer, 0,
                                         RowErr(row.rd, row.buffer, kind))
                              IN  IF kind = UnexpectedEof
                                  THEN a = read_rgb_pixels_paletted_row(
                                             rgb0, pal.buffer, 0, RowOk(row.rd, row.buffer))
                                  ELSE ~a.ok /\ a.kind = kind
              ELSE LET row == next_row_rgb(r0, Repeat(0, Reader_width(r0) * 3))
                   IN  /\ res.ok <=> rd.num_lanes_read = 3 * Reader_height(r0)
                       /\ ~res.ok => res.kind = UnexpectedEof
                       /\ \A kind \in RowErrorKinds :
                            LET a == read_rgb_pixels_rgb_row(
                                       rgb0, 0, RowErr(row.rd, row.buffer, kind))
                            IN  ~a.ok /\ a.kind = kind

\* read_rgb_pixels returned Ok for a paletted image of more than one row of
\* which the file ends before the last row.
C20_Witness ==
    /\ pc = "done" /\ res.ok /\ Reader_is_paletted(rd)
    /\ Reader_height(rd) > 1 /\ Len(file) > HEADER_LENGTH
    /\ rd.num_lanes_read < Reader_height(rd) * rd.header.number_of_color_planes
    /\ rd.pixel_reader.d.pos = Len(file)

---------------------------------------------------------------------------
\* Whether the stream, from its byte i on, ends right after the first byte
\* of a 2-byte code
RECURSIVE TruncatedFrom(_, _)
TruncatedFrom(stream, i) ==
    IF i > Len(stream) THEN FALSE
    ELSE IF stream[i] < 192 THEN TruncatedFrom(stream, i + 1)
    ELSE IF i = Len(stream) THEN TRUE
    ELSE TruncatedFrom(stream, i + 2)

\* C21: on a stream that ends right after the first byte of a 2-byte code (a
\* byte >= 0xC0 without its value), the read call that consumes this byte
\* neither panics nor hangs nor reports the end of the stream with Ok: it
\* returns an error of kind UnexpectedEof; and every read before it returns
\* Ok and fills its buffer.
C21_TruncatedRunCode ==
    /\ [][(/\ pc = "reading" /\ TruncatedFrom(dec.stream, 1)
           /\ dec.pos < Len(dec.stream) /\ dec'.pos = Len(dec.stream))
          => pc' = "reading" /\ ~res'.ok /\ res'.kind = UnexpectedEof]_vars
    /\ [](TruncatedFrom(dec.stream, 1) /\ dec.pos < Len(dec.stream) /\ api.call = "read"
          => res.ok /\ api.n = api.lens[1])

\* A read reached the end of a stream of more than one byte of which the
\* last is the first byte of a 2-byte code, after reads that returned bytes.
C21_Witness ==
    /\ pc = "reading" /\ api.call = "read" /\ ~res.ok /\ res.kind = UnexpectedEof
    /\ TruncatedFrom(dec.stream, 1) /\ dec.pos = Len(dec.stream)
    /\ result # <<>>

---------------------------------------------------------------------------
\* The bytes of the lanes of row y of the image: for each plane the pixels
\* of the row, then zeros up to the lane length (the width rounded up to
\* even)
LanesOfRow(y) ==
    LET width == img.size[1]
        zeros == Repeat(0, width % 2)
    IN  IF img.paletted THEN ImageRow(y, width) \o zeros
        ELSE LET row == ImageRow(y, 3 * width)
             IN  Channel(row, 0, width) \o zeros \o Channel(row, 1, width) \o zeros
                   \o Channel(row, 2, width) \o zeros

\* The bytes of the lanes of the rows 0 .. k - 1
RECURSIVE LanesOfRows(_)
LanesOfRows(k) == IF k = 0 THEN <<>> ELSE LanesOfRows(k - 1) \o LanesOfRow(k - 1)

\* What a Decompressor returns for the bytes of the file after the header,
\* read to the end
Decompressed(f) ==
    Decompressor_read(Decompressor_new(SubSeq(f, HEADER_LENGTH + 1, Len(f))),
                      64 * Len(f) + 1)

\* C22: a writer that is dropped before finish or write_palette was called
\* flushes the pending run of its compressor, so that the sink decompresses
\* to all the bytes of the lanes written so far.
C22_DropFlushes ==
    pc = "dropped" =>
        /\ Decompressed(file).ok
        /\ Decompressed(file).data = LanesOfRows(api.written)

---------------------------------------------------------------------------
\* C23: on an RGB image num_lanes_read is a multiple of 3 whenever
\* next_row_rgb or next_row_rgb_separate is entered, after any calls of the
\* Reader, those that returned an error included, so that their
\* assert_eq!(num_lanes_read % 3, 0) never fails.
C23_LanesInGroupsOfThree ==
    (pc = "opened" /\ ~Reader_is_paletted(rd)) =>
        /\ rd.num_lanes_read % 3 = 0
        /\ ~(api.call \in {"next_row_rgb", "next_row_rgb_separate"} /\ res.kind = Panic)

---------------------------------------------------------------------------
\* The reference expansion of a stream from its byte i on: a byte below 0xC0
\* stands for itself, a byte b >= 0xC0 followed by v for b - 0xC0 copies of
\* v (a last byte >= 0xC0 without a v stands for nothing).
RECURSIVE Expansion(_, _)
Expansion(stream, i) ==
    IF i > Len(stream) THEN <<>>
    ELSE IF stream[i] < 192 THEN <<stream[i]>> \o Expansion(stream, i + 1)
    ELSE IF i = Len(stream) THEN <<>>
    ELSE Repeat(stream[i + 1], stream[i] - 192) \o Expansion(stream, i + 2)

\* C24: what the Decompressor returns does not depend on the lengths of the
\* buffers it is read with.  On a stream without a truncated 2-byte code,
\* whatever the lengths of the buffers of the successive read calls, no call
\* fails or hangs, each call returns as many bytes as its buffer takes or
\* all the bytes that are left (0 only at the end of the stream, with no
\* pending run), the bytes returned so far are a prefix of the reference
\* expansion of the stream, and the pending run is the bytes of the
\* expansion that come next.
C24_ChunkIndependent ==
    ~TruncatedFrom(dec.stream, 1) =>
        LET expansion == Expansion(dec.stream, 1)
        IN  /\ pc = "reading"
            /\ api.call = "read" => res.ok
            /\ Len(result) <= Len(expansion)
            /\ result = SubSeq(expansion, 1, Len(result))
            /\ api.call = "read" =>
                 api.n = Min(api.lens[1], Len(expansion) - (Len(result) - api.n))
            /\ Len(result) + dec.run_count <= Len(expansion)
            /\ SubSeq(expansion, Len(result) + 1, Len(result) + dec.run_count)
                 = Repeat(dec.run_value, dec.run_count)

\* A run was returned in parts by reads of different lengths, and a part of
\* it is pending.
C24_Witness ==
    /\ pc = "reading" /\ ~TruncatedFrom(dec.stream, 1)
    /\ api.call = "read" /\ api.lens = <<3>> /\ api.n = 3
    /\ Len(result) = 4 /\ dec.run_count > 0
    /\ result = Repeat(dec.run_value, 4)

---------------------------------------------------------------------------
\* The bytes that stand for a run of count copies of value
RunEncoding(count, value) ==
    IF count = 0 THEN <<>>
    ELSE IF count = 1 /\ value < 192 THEN <<value>>
    ELSE <<192 + count, value>>

\* C25: the encoding of an emitted run.  When the Compressor emits its
\* pending run (count, value), in a flush or in a write or pad of one byte
\* that ends the run, it appends to the sink the single byte value if
\* count = 1 and value < 0xC0, the two bytes 0xC0 | count, value otherwise,
\* and nothing if count = 0; a lone byte >= 0xC0 is never written as a
\* literal.
C25_RunEncoding ==
    [][/\ (api'.n = api.n + 1 /\ api'.call = "flush") =>
             comp'.stream = comp.stream \o RunEncoding(comp.run_count, comp.run_value)
       /\ (api'.n = api.n + 1 /\ api'.call \in {"write", "pad"} /\ api'.lens = <<1>>) =>
             \/ comp'.stream = comp.stream /\ comp'.run_count = comp.run_count + 1
             \/ /\ comp'.stream
                     = comp.stream \o RunEncoding(comp.run_count, comp.run_value)
                /\ comp'.run_count = 1]_vars

\* A flush emitted the code 0xC1, 0xC8 for a lone byte 0xC8.
C25_Witness ==
    /\ api.call = "flush" /\ comp.run_count = 1 /\ comp.run_value = 200
    /\ Len(comp.stream) >= 2
    /\ SubSeq(comp.stream, Len(comp.stream) - 1, Len(comp.stream)) = <<193, 200>>

---------------------------------------------------------------------------
\* C26: the Compressor ends a pending run only at a byte that differs from
\* the run value, at a count of 63 or at the end of a lane.  A stretch of up
\* to 63 equal bytes inside one lane, written in any number of calls and
\* flushed, is emitted as one code; 63 equal bytes give 0xFF, value.
C26_RunOf63 ==
    (/\ pc = "flushed"
     /\ Len(data) \in 1..63 /\ Len(data) < comp.lane_length
     /\ \A i \in 1..Len(data) : data[i] = data[1])
    => comp.stream = RunEncoding(Len(data), data[1])

---------------------------------------------------------------------------
\* What a Decompressor returns for the bytes of the sink s, read to the end
\* with a buffer that takes more than the n bytes expected
Decoded(s, n) == Decompressor_read(Decompressor_new(s), n + 1)

\* C27: the pending run of the Compressor.  After any write and pad calls
\* and no flush, the sink decodes to a prefix of the bytes fed so far (by
\* write and by pad), and this prefix followed by run_count copies of
\* run_value is all the bytes fed: without the flush exactly the pending run
\* is missing, and the first flush adds it.
C27_PendingRun ==
    /\ pc = "writing" =>
         /\ Decoded(comp.stream, Len(data)).ok
         /\ Decoded(comp.stream, Len(data)).data \o Repeat(comp.run_value, comp.run_count)
              = data
    /\ pc = "flushed" =>
         /\ Decoded(comp.stream, Len(data)).ok
         /\ Decoded(comp.stream, Len(data)).data = data

\* Bytes were written in several calls, codes were emitted and a run of
\* more than one byte is pending.
C27_Witness ==
    /\ pc = "writing" /\ api.call = "write" /\ api.n > 1
    /\ comp.run_count > 1 /\ Len(comp.stream) > 2
    /\ Len(data) > comp.run_count + 2

---------------------------------------------------------------------------
\* The number of decoded bytes the Reader r has taken from its pixel data:
\* the bytes of the file after the header that were consumed, expanded if
\* the file is compressed, less the part of the last run still pending.
DecodedPos(r) ==
    IF r.pixel_reader.compressed
    THEN Len(Expansion(SubSeq(r.pixel_reader.d.stream, HEADER_LENGTH + 1,
                              r.pixel_reader.d.pos), 1))
           - r.pixel_reader.d.run_count
    ELSE r.pixel_reader.d.pos - HEADER_LENGTH

\* The lanes k .. k + p - 1 of the image of r that are followed by padding
LanesWithPadding(r, k, p) ==
    {j \in k..(k + p - 1) :
        j + 1 < Reader_height(r) * r.header.number_of_color_planes}

\* C28: the padding of the lanes.  In every format, a call that reads a row
\* and returns Ok reads one lane per color plane, each of
\* lane_proper_length() decoded bytes, and after the lane of index k (from
\* 0, counted in num_lanes_read) it discards lane_length -
\* lane_proper_length() decoded bytes if k + 1 < height *
\* number_of_color_planes and none otherwise (after the last lane of the
\* image); num_lanes_read grows by one per lane read, and by less than the
\* lanes of a row in a call that fails.
C28_PaddingSkipped ==
    [][(/\ pc = "opened" /\ pc' = "opened" /\ rd' # rd
        /\ api'.call \in {"next_row_paletted", "next_row_rgb", "next_row_rgb_separate"})
       => LET planes == rd.header.number_of_color_planes
              k      == rd.num_lanes_read
          IN  IF res'.ok
              THEN /\ rd'.num_lanes_read = k + planes
                   /\ DecodedPos(rd') - DecodedPos(rd)
                        = planes * lane_proper_length(Reader_width(rd), rd.header.bit_depth)
                            + (rd.header.lane_length
                                 - lane_proper_length(Reader_width(rd), rd.header.bit_depth))
                              * Cardinality(LanesWithPadding(rd, k, planes))
              ELSE rd'.num_lanes_read - k \in 0..(planes - 1)]_vars

\* The last row of an image of more than one row and more than one plane
\* was read, with padding after all its lanes but the last, from a
\* compressed file.
C28_Witness ==
    /\ pc = "opened" /\ res.ok /\ api.call = "next_row_paletted"
    /\ rd.pixel_reader.compressed
    /\ rd.header.number_of_color_planes > 1 /\ Reader_height(rd) > 1
    /\ rd.header.lane_length - Header_lane_proper_length(rd.header) = 2
    /\ rd.num_lanes_read = Reader_height(rd) * rd.header.number_of_color_planes

---------------------------------------------------------------------------
\* The bytes that the sink of the compressor c of a writer and its pending
\* run stand for: the sink after the header, decoded, then run_count copies
\* of run_value; n is the number of bytes expected.
BytesFed(c, n) ==
    Decoded(SubSeq(c.stream, HEADER_LENGTH + 1, Len(c.stream)), n).data
      \o Repeat(c.run_value, c.run_count)

\* C29: the lanes of a writer.  After every row written by a WriterRgb or a
\* WriterPaletted the lane_position of the compressor is 0 and the bytes
\* given to the compressor are, for each color plane of each row, the width
\* bytes of the pixels followed by lane_length - width zeros, where
\* lane_length is the width rounded up to even.  Compressor::pad writes
\* nothing when lane_position is 0, and otherwise it writes the zeros up to
\* the end of the lane, fewer than lane_length, and returns.
C29_LaneLayout ==
    pc = "rows" =>
        LET c     == wr.compressor
            lanes == LanesOfRows(api.written)
            part  == Compressor_write(c, <<5>>)
        IN  /\ c.lane_position = 0
            /\ c.lane_length = img.size[1] + (img.size[1] % 2)
            /\ BytesFed(c, Len(lanes)) = lanes
            /\ Compressor_pad(c) = c
            /\ part.lane_position = 1
            /\ Compressor_pad(part).lane_position = 0
            /\ BytesFed(Compressor_pad(part), Len(lanes) + c.lane_length)
                 = lanes \o <<5>> \o Repeat(0, c.lane_length - 1)

\* Two rows of an RGB image of odd width were written, the last one with
\* write_row_from_interleaved.
C29_Witness ==
    /\ pc = "rows" /\ res.ok /\ api.call = "write_row_from_interleaved"
    /\ ~img.paletted /\ img.size[1] = 3 /\ api.written = 2
    /\ wr.compressor.lane_length = 4


---------------------------------------------------------------------------
\* The decoded bytes of the pixel data of the file of the Reader r
DecodedBody(r) ==
    IF r.pixel_reader.compressed
    THEN Expansion(SubSeq(r.pixel_reader.d.stream, HEADER_LENGTH + 1,
                          Len(r.pixel_reader.d.stream)), 1)
    ELSE SubSeq(r.pixel_reader.d.stream, HEADER_LENGTH + 1,
                Len(r.pixel_reader.d.stream))

\* The index of pixel k of a packed lane of bit depth b: with n = 8 / b,
\* (lane[k div n] >> (8 - b * ((k mod n) + 1))) & (2^b - 1)
PackedIndex(lane, b, k) ==
    (lane[(k \div (8 \div b)) + 1] \div Pow2(8 - b * ((k % (8 \div b)) + 1))) % Pow2(b)

\* The widest row unpacked on its own, and a lane of n distinct bytes
MaxUnpackWidth == 17
PatternLane(n) == [i \in 1..n |-> (143 + 77 * i) % 256]

\* C30: the unpacking of packed pixels.  With one plane and a bit depth b
\* of 1, 2 or 4, a call of next_row_paletted with a buffer of length width
\* that returns Ok leaves in buffer[k], for every k < width, the b bits of
\* the lane that start at bit b * k, most significant bits first, where the
\* lane is the lane_proper_length() decoded bytes read for this row; and
\* for every width up to MaxUnpackWidth the unpacking in place, from the
\* tail of the buffer, of a lane of distinct bytes gives these indices
\* without a panic (no packed byte is overwritten before its last use).
C30_PackedUnpacking ==
    /\ [][(/\ pc = "opened" /\ pc' = "opened" /\ rd' # rd
            /\ api'.call = "next_row_paletted" /\ res'.ok
            /\ rd.header.number_of_color_planes = 1
            /\ rd.header.bit_depth \in {1, 2, 4}
            /\ api'.lens = <<Reader_width(rd)>>)
           => LET b    == rd.header.bit_depth
                  w    == Reader_width(rd)
                  from == DecodedPos(rd)
                  lane == SubSeq(DecodedBody(rd), from + 1,
                                 from + lane_proper_length(w, b))
              IN  /\ Len(out'.pixels) = w
                  /\ \A k \in 0..(w - 1) : out'.pixels[k + 1] = PackedIndex(lane, b, k)]_vars
    /\ [](pc = "open" =>
            \A w \in 1..MaxUnpackWidth, b \in {1, 2, 4} :
               LET n    == lane_proper_length(w, b)
                   lane == PatternLane(n)
                   u    == unpack_bits(Repeat(0, w - n) \o lane, w - n, w, b)
               IN  /\ ~u.panic
                   /\ Len(u.buffer) = w
                   /\ \A k \in 0..(w - 1) : u.buffer[k + 1] = PackedIndex(lane, b, k))

\* A row of 9 pixels of 2 bits was unpacked from the bytes 0xC0, 0xC0, 0xC0
\* of a compressed file: index 3 at every fourth pixel, the last byte used
\* for one pixel only.
C30_Witness ==
    /\ pc = "opened" /\ res.ok /\ api.call = "next_row_paletted"
    /\ rd.pixel_reader.compressed
    /\ rd.header.number_of_color_planes = 1 /\ rd.header.bit_depth = 2
    /\ api.lens = <<9>>
    /\ out.pixels = <<3, 0, 0, 0, 3, 0, 0, 0, 3>>


---------------------------------------------------------------------------
\* Bit 7 - (x mod 8) of byte x div 8 of the lane that starts after `from`
\* bytes of the decoded pixel data
LaneBit(body, from, x) ==
    (body[from + (x \div 8) + 1] \div Pow2(7 - (x % 8))) % 2

\* Where in the decoded pixel data the d-th lane of the row that the Reader
\* r reads next starts: after the lanes of the row before it and the
\* padding of those of them that are followed by padding
LaneStart(r, d) ==
    DecodedPos(r)
      + d * lane_proper_length(Reader_width(r), r.header.bit_depth)
      + (r.header.lane_length - lane_proper_length(Reader_width(r), r.header.bit_depth))
          * Cardinality(LanesWithPadding(r, r.num_lanes_read, d))

\* C31: the assembly of planar pixels.  With a bit depth of 1 and 2, 3 or 4
\* planes, a call of next_row_paletted with a buffer of length width that
\* returns Ok leaves, for every pixel x < width and every plane d, in bit d
\* of buffer[x] the bit 7 - (x mod 8) of byte x div 8 of the d-th lane read
\* for this row, and all higher
\* bits of buffer[x] are 0: nothing of the bytes the buffer held before the
\* call is left.
C31_PlanarAssembly ==
    [][(/\ pc = "opened" /\ pc' = "opened" /\ rd' # rd
        /\ api'.call = "next_row_paletted" /\ res'.ok
        /\ rd.header.bit_depth = 1
        /\ rd.header.number_of_color_planes \in {2, 3, 4}
        /\ api'.lens = <<Reader_width(rd)>>)
       => LET p    == rd.header.number_of_color_planes
              w    == Reader_width(rd)
              body == DecodedBody(rd)
          IN  /\ Len(out'.pixels) = w
              /\ \A x \in 0..(w - 1) :
                   /\ out'.pixels[x + 1] < Pow2(p)
                   /\ \A d \in 0..(p - 1) :
                        (out'.pixels[x + 1] \div Pow2(d)) % 2
                          = LaneBit(body, LaneStart(rd, d), x)]_vars

\* A row of 9 pixels of 3 planes was assembled from the uncompressed
\* bytes 0xC2, 0xC0 of every lane and its padding: the pixels of the set
\* bits have all three planes, index 7.
C31_Witness ==
    /\ pc = "opened" /\ res.ok /\ api.call = "next_row_paletted"
    /\ ~rd.pixel_reader.compressed
    /\ rd.header.number_of_color_planes = 3 /\ rd.header.bit_depth = 1
    /\ api.lens = <<9>>
    /\ out.pixels = <<7, 7, 0, 0, 0, 0, 7, 0, 7>>


---------------------------------------------------------------------------
\* What next_row_paletted returns for the rows y .. height - 1 of the image
\* of the Reader r, called in turn with a buffer of width stale bytes
RECURSIVE IndexRows(_, _)
IndexRows(r, y) ==
    IF y >= Reader_height(r) THEN <<>>
    ELSE LET row == next_row_paletted(r, Repeat(255, Reader_width(r)))
         IN  <<row>> \o IndexRows(row.rd, y + 1)

\* The pixels rgb are the colors, in the palette, of the indices of rows
ExpandedBy(rgb, rows, palette, w) ==
    /\ Len(rgb) = Len(rows) * w * 3
    /\ \A y \in 0..(Len(rows) - 1), x \in 0..(w - 1), c \in 0..2 :
          rgb[(y * w + x) * 3 + c + 1] = palette[3 * rows[y + 1].buffer[x + 1] + c + 1]

\* read_rgb_pixels on the file, whose palette was read as pal and whose
\* rows are read as rows, left rgb
ExpandedRows(pal, rows, rgb, w) ==
    (\A y \in 1..Len(rows) : rows[y].ok)
      => res.ok /\ ExpandedBy(rgb, rows, pal.buffer, w)

ExpandedFrom(r0, pal, rgb) ==
    pal.ok => ExpandedRows(pal, IndexRows(pal.rd, 0), rgb, Reader_width(r0))

\* C32: the expansion of a paletted image to RGB.  When get_palette and
\* all the rows of a paletted image decode without error, read_rgb_pixels
\* returns Ok and rgb[(y * width + x) * 3 + c] = palette[3 * i + c] for
\* every pixel and c in 0..2, where i is the index next_row_paletted yields
\* for the pixel and palette is what get_palette writes into 256 entries of
\* zeros: the expansion in place, from the right, of the indices stored at
\* the start of each row of rgb uses every index before it is overwritten.
C32_PalettedToRgb ==
    (pc = "done" /\ Header_load(file).ok /\ Reader_is_paletted(Reader_new(file).rd))
      => ExpandedFrom(Reader_new(file).rd,
                      get_palette(Reader_new(file).rd, Repeat(0, PALETTE_LENGTH)),
                      out.pixels)

\* A row of the indices 1, 192, 1 of a file of 256 colors was expanded to
\* the colors of the palette at the end of the file.
C32_Witness ==
    /\ pc = "done" /\ res.ok
    /\ Reader_palette_length(rd) = <<256>> /\ Reader_width(rd) = 3
    /\ Len(out.pixels) >= 9
    /\ SubSeq(out.pixels, 1, 9) = <<44, 55, 66, 203, 214, 225, 44, 55, 66>>


---------------------------------------------------------------------------
\* The number of colors of the palette of an image that has not 256 colors
SmallPaletteLength(r) ==
    IF Reader_palette_length(r) = <<>> THEN 0 ELSE Reader_palette_length(r)[1]

\* The first n colors of a small palette: black and white for n = 2, else
\* those of the header
SmallPaletteColors(r, n) ==
    IF n = 2 THEN <<0, 0, 0, 255, 255, 255>> ELSE SubSeq(r.header.palette, 1, 3 * n)

\* C33: where the small palettes come from.  On an image that has not 256
\* colors, get_palette and read_palette return Ok(n) and write the first
\* 3 * n bytes of the buffer only: n = 0 for an RGB image, n = 2 and black
\* then white for a palette length of 2 whatever the palette of the header
\* holds, and for the palette lengths 4, 8 and 16 that length and the first
\* that many colors of the palette of the header; no byte of the pixel
\* data is consumed and the count of the lanes read stays.
C33_SmallPalettes ==
    [][(/\ pc = "opened" /\ pc' \in {"opened", "closed"}
        /\ api'.call \in {"get_palette", "read_palette"}
        /\ Reader_palette_length(rd) # <<256>>)
       => LET n == SmallPaletteLength(rd)
          IN  /\ n \in {0, 2, 4, 8, 16}
              /\ n = 0 <=> ~Reader_is_paletted(rd)
              /\ res'.ok /\ out'.colors = n
              /\ out'.palette
                   = SmallPaletteColors(rd, n) \o Repeat(0, PALETTE_LENGTH - 3 * n)
              /\ rd' = rd
              /\ get_palette(rd, Repeat(0, PALETTE_LENGTH)).rd = rd
              /\ read_palette(rd, Repeat(0, PALETTE_LENGTH)).rd = rd]_vars

\* read_palette returned black and white for a monochrome image whose
\* header holds other colors, after a row of it was read.
C33_Witness ==
    /\ pc = "closed" /\ res.ok /\ api.call = "read_palette"
    /\ Reader_palette_length(rd) = <<2>> /\ rd.num_lanes_read > 0
    /\ out.colors = 2 /\ SubSeq(out.palette, 1, 7) = <<0, 0, 0, 255, 255, 255, 0>>
    /\ SubSeq(rd.header.palette, 1, 3) # <<0, 0, 0>>


---------------------------------------------------------------------------
\* C34: a buffer of the wrong length in a call that reads a row of an RGB
\* image (the rows before it read in full).  next_row_rgb_separate with r,
\* g or b of a length other than width, like next_row_rgb with rgb of a
\* length other than width * 3, returns an InvalidInput error, consumes no
\* pixel data and leaves num_lanes_read as it was.
C34_WrongSizeConsumesNothing ==
    [][(/\ pc = "opened" /\ pc' = "opened"
        /\ ~Reader_is_paletted(rd) /\ rd.num_lanes_read % 3 = 0
        /\ \/ /\ api'.call = "next_row_rgb_separate"
              /\ \E i \in 1..3 : api'.lens[i] # Reader_width(rd)
           \/ /\ api'.call = "next_row_rgb"
              /\ api'.lens # <<Reader_width(rd) * 3>>)
       => /\ ~res'.ok /\ res'.kind = InvalidInput
          /\ rd'.num_lanes_read = rd.num_lanes_read
          /\ rd' = rd]_vars


---------------------------------------------------------------------------
\* The lengths a call that writes a row expects of its buffers
RowLensWanted(call, width) ==
    IF call = "write_row_from_interleaved" THEN <<3 * width>>
    ELSE IF call = "write_row_from_separate" THEN <<width, width, width>>
    ELSE <<width>>

\* C35: a rejected call that writes a row.  write_row_from_separate,
\* write_row_from_interleaved and write_row are rejected with InvalidInput
\* when all rows were written or a buffer has the wrong length, and only
\* then; a rejected call writes nothing to the compressor or the sink and
\* leaves num_rows_left, the pending run and the lane position as they
\* were (the writer is the same value, so that a following call behaves as
\* if the rejected call had not been made).
C35_RejectedRowWrite ==
    [][(/\ pc = "rows" /\ pc' = "rows" /\ api'.n = api.n + 1
        /\ api'.call \in {"write_row_from_interleaved", "write_row_from_separate",
                          "write_row"})
       => /\ ~res'.ok <=> \/ wr.num_rows_left = 0
                          \/ api'.lens # RowLensWanted(api'.call, img.size[1])
          /\ ~res'.ok =>
                /\ res'.kind = InvalidInput
                /\ wr'.compressor.stream = wr.compressor.stream
                /\ wr'.compressor.run_count = wr.compressor.run_count
                /\ wr'.compressor.run_value = wr.compressor.run_value
                /\ wr'.compressor.lane_position = wr.compressor.lane_position
                /\ wr'.num_rows_left = wr.num_rows_left
                /\ wr' = wr /\ file' = file
                /\ api'.written = api.written]_vars

\* write_row_from_separate was rejected for the length of a buffer after a
\* row was written and before the last, the compressor holding a run.
C35_Witness ==
    /\ pc = "rows" /\ ~res.ok /\ res.kind = InvalidInput
    /\ api.call = "write_row_from_separate" /\ api.written > 0
    /\ wr.num_rows_left > 0 /\ wr.compressor.run_count > 0


---------------------------------------------------------------------------
\* C36: flush emits each pending run once.  In every order of write, pad
\* and flush calls on a Compressor (flush twice in a row, flush followed by
\* writes, also of the value of the run just flushed), after a flush the
\* sink decompresses to exactly the bytes written so far, and a flush that
\* follows a flush adds no byte to the sink.
C36_FlushOnce ==
    /\ [](api.call = "flush" =>
            LET d == Decoded(comp.stream, Len(data))
            IN  d.ok /\ d.data = data)
    /\ [][(api.call = "flush" /\ api'.call = "flush" /\ api'.n = api.n + 1)
           => comp'.stream = comp.stream]_vars


---------------------------------------------------------------------------
\* C37: the file of a WriterRgb after finish.  Once finish has returned Ok
\* and the writer is destroyed, the sink holds the header of 128 bytes
\* followed by compressed data that decompresses to exactly
\* height * 3 * lane_length bytes: the last pending run is emitted once by
\* finish and the flush of the destruction together.
C37_FinishEmitsOnce ==
    (pc = "finished" /\ api.call = "finish" /\ res.ok) =>
        LET n == img.size[2] * 3 * wr.compressor.lane_length
            d == Decoded(SubSeq(file, HEADER_LENGTH + 1, Len(file)), n)
        IN  /\ Len(file) >= HEADER_LENGTH
            /\ d.ok /\ Len(d.data) = n


---------------------------------------------------------------------------
\* C38: the pending run after a failed read.  When read returns an error
\* because the value of a 2-byte code is missing, the pending run of the
\* decompressor is what it was before the failing step (no run: the code
\* is read only once the run before it is written out), and the read calls
\* after it give no byte to the caller for the incomplete code.
C38_RunKeptOnError ==
    /\ []((api.call = "read" /\ ~res.ok) => dec.run_count = 0)
    /\ [][(api.call = "read" /\ ~res.ok /\ pc = "reading" /\ pc' = "reading")
           => result' = result]_vars


---------------------------------------------------------------------------
\* C39: no row is read past the image.  num_lanes_read never exceeds
\* height * number_of_color_planes, and a call of next_row_paletted,
\* next_row_rgb or next_row_rgb_separate made once all the rows were read
\* returns an error and consumes no byte of the stream.
C39_NoRowPastImage ==
    /\ [](pc \in {"opened", "closed"} =>
            rd.num_lanes_read <= Reader_height(rd) * rd.header.number_of_color_planes)
    /\ [][(/\ pc = "opened" /\ pc' = "opened"
            /\ api'.call \in {"next_row_paletted", "next_row_rgb", "next_row_rgb_separate"}
            /\ rd.num_lanes_read >= Reader_height(rd) * rd.header.number_of_color_planes)
           => /\ ~res'.ok
              /\ rd'.pixel_reader = rd.pixel_reader]_vars


---------------------------------------------------------------------------
\* What get_palette returns (g) is what read_palette has returned
SameOutcome(g) ==
    /\ g.ok <=> res.ok
    /\ res.ok => /\ g.n = 256 /\ out.colors = 256
                 /\ SubSeq(g.buffer, 1, PALETTE_LENGTH)
                      = SubSeq(out.palette, 1, PALETTE_LENGTH)
    /\ ~res.ok => g.kind = InvalidData /\ res.kind = InvalidData

\* C40: the two ways to the palette of 256 colors agree.  On an image of
\* 256 colors, in any state of the Reader in which at least 769 bytes of
\* the stream are unread, get_palette (which seeks) and read_palette
\* (which reads to the end, in reads of any lengths) give the same
\* outcome: both return 256 with the same 768 bytes, or both fail with an
\* InvalidData error.
C40_PaletteStrategiesAgree ==
    (/\ pc = "closed" /\ api.call = "read_palette"
     /\ Reader_palette_length(rd) = <<256>>
     /\ Unread(rd) >= TEMP_BUFFER_LENGTH)
      => SameOutcome(get_palette(rd, Repeat(0, PALETTE_LENGTH)))

\* read_palette returned the palette, read in turns of at most 500 bytes,
\* after rows of a compressed file were read, where get_palette returns it
\* too.
C40_Witness ==
    /\ pc = "closed" /\ api.call = "read_palette" /\ api.lens = <<500>>
    /\ Reader_palette_length(rd) = <<256>> /\ rd.pixel_reader.compressed
    /\ rd.num_lanes_read > 0 /\ rd.pixel_reader.d.pos > HEADER_LENGTH
    /\ Unread(rd) > TEMP_BUFFER_LENGTH
    /\ res.ok /\ out.colors = 256
    /\ get_palette(rd, Repeat(0, PALETTE_LENGTH)).ok

====
